---- MODULE Spec2Model ----
(***************************************************************************)
(* Model of include/stringzilla/hash.h: the byte checksum, the AES-based   *)
(* 64-bit hash in its one-shot and streaming forms, and the AES-CTR-like   *)
(* generator.                                                              *)
(*                                                                         *)
(* Data representation.  A byte is an integer 0..255.  Every vector of the *)
(* source (sz_u128_vec_t, sz_u512_vec_t) is the tuple of its bytes in      *)
(* memory order: position i+1 of the tuple is u8s[i].  A 64-bit word is    *)
(* the tuple of its 8 bytes, least significant first, which is how the     *)
(* u64s[] and u8s[] views of the source's unions overlap on the x86 and    *)
(* Arm targets the header supports.  64-bit arithmetic is done on these    *)
(* tuples, byte by byte with carry, so that it wraps modulo 2^64 exactly   *)
(* as sz_u64_t does.                                                       *)
(***************************************************************************)
EXTENDS Integers, Sequences, FiniteSets, TLC

(***************************************************************************)
(* Bounds of the model.                                                    *)
(***************************************************************************)
\* The longest byte string streamed into one hash state in Spec.
MaxTotal == 130

(***************************************************************************)
(* Bytes, words and vectors.                                               *)
(***************************************************************************)
\* XorNibble[16 * a + b + 1] = a ^ b for 4-bit a and b.
XorNibble ==
    <<0, 1, 2, 3, 4, 5, 6, 7, 8, 9, 10, 11, 12, 13, 14, 15,
      1, 0, 3, 2, 5, 4, 7, 6, 9, 8, 11, 10, 13, 12, 15, 14,
      2, 3, 0, 1, 6, 7, 4, 5, 10, 11, 8, 9, 14, 15, 12, 13,
      3, 2, 1, 0, 7, 6, 5, 4, 11, 10, 9, 8, 15, 14, 13, 12,
      4, 5, 6, 7, 0, 1, 2, 3, 12, 13, 14, 15, 8, 9, 10, 11,
      5, 4, 7, 6, 1, 0, 3, 2, 13, 12, 15, 14, 9, 8, 11, 10,
      6, 7, 4, 5, 2, 3, 0, 1, 14, 15, 12, 13, 10, 11, 8, 9,
      7, 6, 5, 4, 3, 2, 1, 0, 15, 14, 13, 12, 11, 10, 9, 8,
      8, 9, 10, 11, 12, 13, 14, 15, 0, 1, 2, 3, 4, 5, 6, 7,
      9, 8, 11, 10, 13, 12, 15, 14, 1, 0, 3, 2, 5, 4, 7, 6,
      10, 11, 8, 9, 14, 15, 12, 13, 2, 3, 0, 1, 6, 7, 4, 5,
      11, 10, 9, 8, 15, 14, 13, 12, 3, 2, 1, 0, 7, 6, 5, 4,
      12, 13, 14, 15, 8, 9, 10, 11, 4, 5, 6, 7, 0, 1, 2, 3,
      13, 12, 15, 14, 9, 8, 11, 10, 5, 4, 7, 6, 1, 0, 3, 2,
      14, 15, 12, 13, 10, 11, 8, 9, 6, 7, 4, 5, 2, 3, 0, 1,
      15, 14, 13, 12, 11, 10, 9, 8, 7, 6, 5, 4, 3, 2, 1, 0>>

\* The C operators ^ and | on two sz_u8_t values.
Xor8(a, b) ==
    XorNibble[16 * (a % 16) + (b % 16) + 1]
    + 16 * XorNibble[16 * (a \div 16) + (b \div 16) + 1]

Or8(a, b) == (a + b + Xor8(a, b)) \div 2

\* n zero bytes (built by halving, to keep the evaluation shallow).
RECURSIVE Zeros(_)
Zeros(n) ==
    IF n = 0 THEN <<>>
    ELSE IF n = 1 THEN <<0>>
    ELSE Zeros(n \div 2) \o Zeros(n - (n \div 2))

Min(a, b) == IF a <= b THEN a ELSE b

\* A sz_u64_t holding the value n, for 0 <= n < 2^31.
U64(n) == <<n % 256, (n \div 256) % 256, (n \div 65536) % 256, (n \div 16777216) % 256, 0, 0, 0, 0>>

\* a + b on sz_u64_t: wraps modulo 2^64.
RECURSIVE AddCarry(_, _, _, _)
AddCarry(a, b, i, carry) ==
    IF i > 8 THEN <<>>
    ELSE LET s == a[i] + b[i] + carry
         IN  <<s % 256>> \o AddCarry(a, b, i + 1, s \div 256)

U64Add(a, b) == AddCarry(a, b, 1, 0)

\* a ^ b and a | b on sz_u64_t.
U64Xor(a, b) ==
    <<Xor8(a[1], b[1]), Xor8(a[2], b[2]), Xor8(a[3], b[3]), Xor8(a[4], b[4]),
      Xor8(a[5], b[5]), Xor8(a[6], b[6]), Xor8(a[7], b[7]), Xor8(a[8], b[8])>>

U64Or(a, b) ==
    <<Or8(a[1], b[1]), Or8(a[2], b[2]), Or8(a[3], b[3]), Or8(a[4], b[4]),
      Or8(a[5], b[5]), Or8(a[6], b[6]), Or8(a[7], b[7]), Or8(a[8], b[8])>>

\* w >> (8 * k) and w << (8 * k) on sz_u64_t, for 0 <= k <= 7.
U64ShrBytes(w, k) == SubSeq(w, k + 1, 8) \o Zeros(k)
U64ShlBytes(w, k) == Zeros(k) \o SubSeq(w, 1, 8 - k)

\* The two 64-bit words of a 128-bit vector: vec.u64s[0] and vec.u64s[1].
Lo64(vec) == SubSeq(vec, 1, 8)
Hi64(vec) == SubSeq(vec, 9, 16)

\* The k-th 128-bit lane (k = 0..3) of a 512-bit vector: ((sz_u128_vec_t *)&v.u64s[0])[k].
Lane(vec512, k) == SubSeq(vec512, 16 * k + 1, 16 * k + 16)

(***************************************************************************)
(* The AES round and the byte shuffle.                                     *)
(***************************************************************************)
\* The S-box table of _sz_emulate_aesenc_si128_serial.
sbox ==
    << 99, 124, 119, 123, 242, 107, 111, 197,  48,   1, 103,  43, 254, 215, 171, 118,
      202, 130, 201, 125, 250,  89,  71, 240, 173, 212, 162, 175, 156, 164, 114, 192,
      183, 253, 147,  38,  54,  63, 247, 204,  52, 165, 229, 241, 113, 216,  49,  21,
        4, 199,  35, 195,  24, 150,   5, 154,   7,  18, 128, 226, 235,  39, 178, 117,
        9, 131,  44,  26,  27, 110,  90, 160,  82,  59, 214, 179,  41, 227,  47, 132,
       83, 209,   0, 237,  32, 252, 177,  91, 106, 203, 190,  57,  74,  76,  88, 207,
      208, 239, 170, 251,  67,  77,  51, 133,  69, 249,   2, 127,  80,  60, 159, 168,
       81, 163,  64, 143, 146, 157,  56, 245, 188, 182, 218,  33,  16, 255, 243, 210,
      205,  12,  19, 236,  95, 151,  68,  23, 196, 167, 126,  61, 100,  93,  25, 115,
       96, 129,  79, 220,  34,  42, 144, 136,  70, 238, 184,  20, 222,  94,  11, 219,
      224,  50,  58,  10,  73,   6,  36,  92, 194, 211, 172,  98, 145, 149, 228, 121,
      231, 200,  55, 109, 141, 213,  78, 169, 108,  86, 244, 234, 101, 122, 174,   8,
      186, 120,  37,  46,  28, 166, 180, 198, 232, 221, 116,  31,  75, 189, 139, 138,
      112,  62, 181, 102,  72,   3, 246,  14,  97,  53,  87, 185, 134, 193,  29, 158,
      225, 248, 152,  17, 105, 217, 142, 148, 155,  30, 135, 233, 206,  85,  40, 223,
      140, 161, 137,  13, 191, 230,  66, 104,  65, 153,  45,  15, 176,  84, 187,  22>>

\* _sz_gf2_double(x), as stored back into a sz_u8_t.
gf2_double(x) == Xor8((2 * x) % 256, IF x >= 128 THEN 27 ELSE 0)

\* state_2d[r][c] after the combined ShiftRows and SubBytes loop: the loop writes
\* sbox[state_vec.u8s[i]] to state_2d[((i / 4) + 4 - (i % 4)) % 4][i % 4], so the
\* entry (r, c) comes from i = 4 * ((r + c) % 4) + c.
ShiftedSubByte(state_vec, r, c) == sbox[state_vec[4 * ((r + c) % 4) + c + 1] + 1]

\* One iteration of the MixColumns loop, from s0..s3 = state_2d[r][0..3], t = s0
\* and u = s0 ^ s1 ^ s2 ^ s3: the new state_2d[r][0..3].
MixColumn(s0, s1, s2, s3, t, u) ==
    <<Xor8(s0, Xor8(u, gf2_double(Xor8(s0, s1)))),
      Xor8(s1, Xor8(u, gf2_double(Xor8(s1, s2)))),
      Xor8(s2, Xor8(u, gf2_double(Xor8(s2, s3)))),
      Xor8(s3, Xor8(u, gf2_double(Xor8(s3, t))))>>

MixRow(s0, s1, s2, s3) == MixColumn(s0, s1, s2, s3, s0, Xor8(Xor8(s0, s1), Xor8(s2, s3)))

MixedRow(state_vec, r) ==
    MixRow(ShiftedSubByte(state_vec, r, 0), ShiftedSubByte(state_vec, r, 1),
           ShiftedSubByte(state_vec, r, 2), ShiftedSubByte(state_vec, r, 3))

\* a ^ b on two 128-bit vectors.
Xor128(a, b) == U64Xor(Lo64(a), Lo64(b)) \o U64Xor(Hi64(a), Hi64(b))

\* MixColumns(SubBytes(ShiftRows(state))) ^ round_key.
_sz_emulate_aesenc_si128_serial(state_vec, round_key_vec) ==
    Xor128(MixedRow(state_vec, 0) \o MixedRow(state_vec, 1)
           \o MixedRow(state_vec, 2) \o MixedRow(state_vec, 3),
           round_key_vec)

\* The first 16 entries of the table of _sz_hash_u8x16x4_shuffle; the other three
\* quarters of the table repeat them.
shuffle == <<4, 11, 9, 6, 8, 13, 15, 5, 14, 3, 1, 12, 0, 7, 10, 2>>

\* result.u8s[i] = state_vec.u8s[order[i]].
_sz_emulate_shuffle_epi8_serial(state_vec, order) ==
    LET R(i) == state_vec[order[i] + 1]
    IN  <<R(1), R(2), R(3), R(4), R(5), R(6), R(7), R(8),
          R(9), R(10), R(11), R(12), R(13), R(14), R(15), R(16)>>

\* The 16 words of _sz_hash_pi_constants, each as its 8 bytes in memory.
pi ==
    <<<<211, 8, 163, 133, 136, 106, 63, 36>>,  \* 0x243F6A8885A308D3
      <<68, 115, 112, 3, 46, 138, 25, 19>>,  \* 0x13198A2E03707344
      <<208, 49, 159, 41, 34, 56, 9, 164>>,  \* 0xA4093822299F31D0
      <<137, 108, 78, 236, 152, 250, 46, 8>>,  \* 0x082EFA98EC4E6C89
      <<119, 19, 208, 56, 230, 33, 40, 69>>,  \* 0x452821E638D01377
      <<108, 12, 233, 52, 207, 102, 84, 190>>,  \* 0xBE5466CF34E90C6C
      <<221, 80, 124, 201, 183, 41, 172, 192>>,  \* 0xC0AC29B7C97C50DD
      <<23, 9, 71, 181, 181, 213, 132, 63>>,  \* 0x3F84D5B5B5470917
      <<27, 251, 121, 137, 217, 213, 22, 146>>,  \* 0x9216D5D98979FB1B
      <<172, 181, 223, 152, 166, 11, 49, 209>>,  \* 0xD1310BA698DFB5AC
      <<183, 223, 26, 208, 219, 114, 253, 47>>,  \* 0x2FFD72DBD01ADFB7
      <<150, 126, 38, 106, 237, 175, 225, 184>>,  \* 0xB8E1AFED6A267E96
      <<153, 127, 44, 241, 69, 144, 124, 186>>,  \* 0xBA7C9045F12C7F99
      <<247, 108, 145, 179, 71, 153, 161, 36>>,  \* 0x24A19947B3916CF7
      <<22, 252, 142, 133, 226, 242, 1, 8>>,  \* 0x0801F2E2858EFC16
      <<105, 78, 87, 113, 216, 32, 105, 99>>>>  \* 0x636920D871574E69

\* The 128-bit vector at ((sz_u128_vec_t const *)pi)[k], i.e. pi[2k] and pi[2k+1].
PiVec(k) == pi[2 * k + 1] \o pi[2 * k + 2]

(***************************************************************************)
(* The minimal (single-lane) hash state: _sz_hash_minimal_t is the record  *)
(* [aes, sum, key] of three 128-bit vectors.  A seed is a sz_u64_t.        *)
(***************************************************************************)
_sz_hash_minimal_init_serial(seed) ==
    [key |-> seed \o seed,
     aes |-> U64Xor(seed, pi[1]) \o U64Xor(seed, pi[2]),
     sum |-> U64Xor(seed, pi[9]) \o U64Xor(seed, pi[10])]

\* sum = shuffle(sum); sum.u64s[0] += block.u64s[0], sum.u64s[1] += block.u64s[1].
ShuffleAdd(sum_vec, block) ==
    LET shuffled == _sz_emulate_shuffle_epi8_serial(sum_vec, shuffle)
    IN  U64Add(Lo64(shuffled), Lo64(block)) \o U64Add(Hi64(shuffled), Hi64(block))

_sz_hash_minimal_update_serial(state, block) ==
    [state EXCEPT !.aes = _sz_emulate_aesenc_si128_serial(@, block),
                  !.sum = ShuffleAdd(@, block)]

\* mixed_within_register of the two finalizers.
MixWithinRegister(mixed_registers, key_with_length) ==
    _sz_emulate_aesenc_si128_serial(
        _sz_emulate_aesenc_si128_serial(mixed_registers, key_with_length), mixed_registers)

\* `length` is a sz_size_t below 2^31 in this model; the result is the low word.
_sz_hash_minimal_finalize_serial(state, length) ==
    Lo64(MixWithinRegister(
             _sz_emulate_aesenc_si128_serial(state.sum, state.aes),
             U64Add(Lo64(state.key), U64(length)) \o Hi64(state.key)))

\* As _sz_hash_shift_in_register_serial, the two words shifted without the carry.
ShiftInRegisterWithoutCarry(vec, shift_bytes) ==
    IF shift_bytes >= 8
    THEN U64ShrBytes(Hi64(vec), shift_bytes - 8) \o Zeros(8)
    ELSE U64ShrBytes(Lo64(vec), shift_bytes) \o U64ShrBytes(Hi64(vec), shift_bytes)

\* The value of *vec after the call; 0 <= shift_bytes <= 15.
_sz_hash_shift_in_register_serial(vec, shift_bytes) ==
    IF shift_bytes >= 8
    THEN U64ShrBytes(Hi64(vec), shift_bytes - 8) \o Zeros(8)
    ELSE IF shift_bytes # 0
    THEN U64Or(U64ShrBytes(Lo64(vec), shift_bytes), U64ShlBytes(Hi64(vec), 8 - shift_bytes))
         \o U64ShrBytes(Hi64(vec), shift_bytes)
    ELSE vec

(***************************************************************************)
(* The wide (four-lane) hash state: sz_hash_state_t is the record          *)
(* [aes, sum, ins, key, ins_length] with 512-bit aes, sum and ins, a       *)
(* 128-bit key and the byte counter ins_length (below 2^31 in this model). *)
(***************************************************************************)
sz_hash_state_init_serial(seed) ==
    [key |-> seed \o seed,
     aes |-> U64Xor(seed, pi[1]) \o U64Xor(seed, pi[2]) \o U64Xor(seed, pi[3])
             \o U64Xor(seed, pi[4]) \o U64Xor(seed, pi[5]) \o U64Xor(seed, pi[6])
             \o U64Xor(seed, pi[7]) \o U64Xor(seed, pi[8]),
     sum |-> U64Xor(seed, pi[9]) \o U64Xor(seed, pi[10]) \o U64Xor(seed, pi[11])
             \o U64Xor(seed, pi[12]) \o U64Xor(seed, pi[13]) \o U64Xor(seed, pi[14])
             \o U64Xor(seed, pi[15]) \o U64Xor(seed, pi[16]),
     ins |-> Zeros(64),
     ins_length |-> 0]

_sz_hash_state_update_serial(state) ==
    [state EXCEPT
        !.aes = _sz_emulate_aesenc_si128_serial(Lane(@, 0), Lane(state.ins, 0))
                \o _sz_emulate_aesenc_si128_serial(Lane(@, 1), Lane(state.ins, 1))
                \o _sz_emulate_aesenc_si128_serial(Lane(@, 2), Lane(state.ins, 2))
                \o _sz_emulate_aesenc_si128_serial(Lane(@, 3), Lane(state.ins, 3)),
        !.sum = ShuffleAdd(Lane(@, 0), Lane(state.ins, 0))
                \o ShuffleAdd(Lane(@, 1), Lane(state.ins, 1))
                \o ShuffleAdd(Lane(@, 2), Lane(state.ins, 2))
                \o ShuffleAdd(Lane(@, 3), Lane(state.ins, 3))]

\* mixed_registers of _sz_hash_state_finalize_serial, from mixed_registers0..3.
MixRegisters(mixed_registers0, mixed_registers1, mixed_registers2, mixed_registers3) ==
    _sz_emulate_aesenc_si128_serial(
        _sz_emulate_aesenc_si128_serial(mixed_registers0, mixed_registers1),
        _sz_emulate_aesenc_si128_serial(mixed_registers2, mixed_registers3))

_sz_hash_state_finalize_serial(state) ==
    Lo64(MixWithinRegister(
             MixRegisters(
                 _sz_emulate_aesenc_si128_serial(Lane(state.sum, 0), Lane(state.aes, 0)),
                 _sz_emulate_aesenc_si128_serial(Lane(state.sum, 1), Lane(state.aes, 1)),
                 _sz_emulate_aesenc_si128_serial(Lane(state.sum, 2), Lane(state.aes, 2)),
                 _sz_emulate_aesenc_si128_serial(Lane(state.sum, 3), Lane(state.aes, 3))),
             U64Add(Lo64(state.key), U64(state.ins_length)) \o Hi64(state.key)))

(***************************************************************************)
(* The one-shot hash.  `start` is the caller's buffer as a tuple of bytes  *)
(* (start[i] of the source is start[i+1] here) and holds at least `length` *)
(* bytes.                                                                  *)
(***************************************************************************)
\* The 16 bytes read by the two 64-bit loads at start + offset and start + offset + 8.
Load128(start, offset) == SubSeq(start, offset + 1, offset + 16)

\* The loop of the last branch of sz_hash_serial: one wide update per full block.
RECURSIVE HashSerialBlocks(_, _, _)
HashSerialBlocks(state, start, length) ==
    IF state.ins_length + 64 <= length
    THEN HashSerialBlocks(
             [_sz_hash_state_update_serial(
                  [state EXCEPT !.ins = SubSeq(start, state.ins_length + 1, state.ins_length + 64)])
              EXCEPT !.ins_length = @ + 64],
             start, length)
    ELSE state

\* The `if (state.ins_length < length)` block of sz_hash_serial.
HashSerialTail(state, start, length) ==
    IF state.ins_length < length
    THEN [_sz_hash_state_update_serial(
              [state EXCEPT !.ins = SubSeq(start, state.ins_length + 1, length)
                                    \o Zeros(64 - (length - state.ins_length))])
          EXCEPT !.ins_length = length]
    ELSE state

sz_hash_serial(start, length, seed) ==
    IF length <= 16
    THEN LET state == _sz_hash_minimal_init_serial(seed)
             data_vec == SubSeq(start, 1, length) \o Zeros(16 - length)
         IN  _sz_hash_minimal_finalize_serial(
                 _sz_hash_minimal_update_serial(state, data_vec), length)
    ELSE IF length <= 32
    THEN LET state == _sz_hash_minimal_init_serial(seed)
             data0_vec == Load128(start, 0)
             data1_vec == _sz_hash_shift_in_register_serial(Load128(start, length - 16), 32 - length)
         IN  _sz_hash_minimal_finalize_serial(
                 _sz_hash_minimal_update_serial(
                     _sz_hash_minimal_update_serial(state, data0_vec), data1_vec), length)
    ELSE IF length <= 48
    THEN LET state == _sz_hash_minimal_init_serial(seed)
             data0_vec == Load128(start, 0)
             data1_vec == Load128(start, 16)
             data2_vec == _sz_hash_shift_in_register_serial(Load128(start, length - 16), 48 - length)
         IN  _sz_hash_minimal_finalize_serial(
                 _sz_hash_minimal_update_serial(
                     _sz_hash_minimal_update_serial(
                         _sz_hash_minimal_update_serial(state, data0_vec), data1_vec), data2_vec),
                 length)
    ELSE IF length <= 64
    THEN LET state == _sz_hash_minimal_init_serial(seed)
             data0_vec == Load128(start, 0)
             data1_vec == Load128(start, 16)
             data2_vec == Load128(start, 32)
             data3_vec == _sz_hash_shift_in_register_serial(Load128(start, length - 16), 64 - length)
         IN  _sz_hash_minimal_finalize_serial(
                 _sz_hash_minimal_update_serial(
                     _sz_hash_minimal_update_serial(
                         _sz_hash_minimal_update_serial(
                             _sz_hash_minimal_update_serial(state, data0_vec), data1_vec),
                         data2_vec), data3_vec),
                 length)
    ELSE _sz_hash_state_finalize_serial(
             HashSerialTail(
                 HashSerialBlocks(sz_hash_state_init_serial(seed), start, length),
                 start, length))

(***************************************************************************)
(* The streaming hash.                                                     *)
(***************************************************************************)
\* A to_copy that would leave the last byte of the buffer to the next iteration
\* (checks that C14 depends on every iteration consuming at least one byte).
StreamToCopyLeavingOne(state, length) == Min(length, 63 - (state.ins_length % 64))

\* to_copy of one iteration of the loop of sz_hash_state_stream_serial.
StreamToCopy(state, length) == Min(length, 64 - (state.ins_length % 64))

\* An append that would keep the progress in the block in ins_length and not the
\* total (checks that C17 depends on the counter never being reduced).
StreamAppendedWrapping(state, text, to_copy) ==
    [state EXCEPT
        !.ins_length = (@ + to_copy) % 64,
        !.ins = SubSeq(@, 1, (state.ins_length % 64)) \o SubSeq(text, 1, to_copy)
                \o SubSeq(@, (state.ins_length % 64) + to_copy + 1, 64)]

\* An append that would copy to the start of the buffer and not behind the bytes
\* it holds (checks that C19 depends on a chunk being staged where the last ended).
StreamAppendedAtStart(state, text, to_copy) ==
    [state EXCEPT
        !.ins_length = @ + to_copy,
        !.ins = SubSeq(text, 1, to_copy) \o SubSeq(@, to_copy + 1, 64)]

\* The state after the metadata update and the copy of to_copy bytes to the buffer.
StreamAppended(state, text, to_copy) ==
    [state EXCEPT
        !.ins_length = @ + to_copy,
        !.ins = SubSeq(@, 1, (state.ins_length % 64)) \o SubSeq(text, 1, to_copy)
                \o SubSeq(@, (state.ins_length % 64) + to_copy + 1, 64)]

\* An iteration that would not clear the buffer after the absorb (checks that C18
\* depends on the reset).
StreamSerialIterationNotClearing(state, text, length) ==
    IF (state.ins_length % 64) + StreamToCopy(state, length) = 64
    THEN _sz_hash_state_update_serial(
             StreamAppended(state, text, StreamToCopy(state, length)))
    ELSE StreamAppended(state, text, StreamToCopy(state, length))

\* The state after one iteration of the loop, entered with length > 0.
StreamSerialIteration(state, text, length) ==
    IF (state.ins_length % 64) + StreamToCopy(state, length) = 64
    THEN [_sz_hash_state_update_serial(
              StreamAppended(state, text, StreamToCopy(state, length)))
          EXCEPT !.ins = Zeros(64)]
    ELSE StreamAppended(state, text, StreamToCopy(state, length))

\* The state after the call; `text` holds the `length` bytes to absorb.  Each
\* unfolding is one iteration of the `while (length)` loop.
RECURSIVE sz_hash_state_stream_serial(_, _, _)
sz_hash_state_stream_serial(state, text, length) ==
    IF length = 0 THEN state
    ELSE sz_hash_state_stream_serial(
             StreamSerialIteration(state, text, length),
             SubSeq(text, StreamToCopy(state, length) + 1, Len(text)),
             length - StreamToCopy(state, length))

\* A fold that would take lane 1 of aes and sum (checks that C2 depends on the lane).
FoldMinimalStateLane1(state) ==
    [key |-> state.key, aes |-> Lane(state.aes, 1), sum |-> Lane(state.sum, 1)]

\* minimal_state of sz_hash_state_fold_serial: the key and lane 0 of aes and sum.
FoldMinimalState(state) ==
    [key |-> state.key, aes |-> Lane(state.aes, 0), sum |-> Lane(state.sum, 0)]

sz_hash_state_fold_serial(state) ==
    LET length == state.ins_length
        minimal_state == FoldMinimalState(state)
        ins_vecs(k) == Lane(state.ins, k)
    IN  IF length >= 64 THEN _sz_hash_state_finalize_serial(state)
        ELSE IF length <= 16
        THEN _sz_hash_minimal_finalize_serial(
                 _sz_hash_minimal_update_serial(minimal_state, ins_vecs(0)), length)
        ELSE IF length <= 32
        THEN _sz_hash_minimal_finalize_serial(
                 _sz_hash_minimal_update_serial(
                     _sz_hash_minimal_update_serial(minimal_state, ins_vecs(0)), ins_vecs(1)),
                 length)
        ELSE IF length <= 48
        THEN _sz_hash_minimal_finalize_serial(
                 _sz_hash_minimal_update_serial(
                     _sz_hash_minimal_update_serial(
                         _sz_hash_minimal_update_serial(minimal_state, ins_vecs(0)), ins_vecs(1)),
                     ins_vecs(2)),
                 length)
        ELSE _sz_hash_minimal_finalize_serial(
                 _sz_hash_minimal_update_serial(
                     _sz_hash_minimal_update_serial(
                         _sz_hash_minimal_update_serial(
                             _sz_hash_minimal_update_serial(minimal_state, ins_vecs(0)),
                             ins_vecs(1)),
                         ins_vecs(2)),
                     ins_vecs(3)),
                 length)

(***************************************************************************)
(* sz_hash_state_equal.                                                    *)
(***************************************************************************)
\* vec.u64s[i]
U64At(vec, i) == SubSeq(vec, 8 * i + 1, 8 * i + 8)

\* A comparison that would look at the input buffer and its length as well (checks
\* that C4 depends on the comparison leaving them out).
sz_hash_state_equal_with_ins(lhs, rhs) ==
    /\ lhs.aes = rhs.aes /\ lhs.sum = rhs.sum /\ lhs.key = rhs.key
    /\ lhs.ins = rhs.ins /\ lhs.ins_length = rhs.ins_length

sz_hash_state_equal(lhs, rhs) ==
    LET same_aes ==
            /\ U64At(lhs.aes, 0) = U64At(rhs.aes, 0) /\ U64At(lhs.aes, 1) = U64At(rhs.aes, 1)
            /\ U64At(lhs.aes, 2) = U64At(rhs.aes, 2) /\ U64At(lhs.aes, 3) = U64At(rhs.aes, 3)
        same_sum ==
            /\ U64At(lhs.sum, 0) = U64At(rhs.sum, 0) /\ U64At(lhs.sum, 1) = U64At(rhs.sum, 1)
            /\ U64At(lhs.sum, 2) = U64At(rhs.sum, 2) /\ U64At(lhs.sum, 3) = U64At(rhs.sum, 3)
        same_key ==
            /\ U64At(lhs.key, 0) = U64At(rhs.key, 0) /\ U64At(lhs.key, 1) = U64At(rhs.key, 1)
    IN  same_aes /\ same_sum /\ same_key

(***************************************************************************)
(* The x86 intrinsics the Haswell, Skylake and Ice Lake code uses, on the  *)
(* same byte tuples.  The AES round instruction is taken to compute what   *)
(* the serial emulation computes.                                          *)
(***************************************************************************)
_mm_aesenc_si128(a, round_key) == _sz_emulate_aesenc_si128_serial(a, round_key)

_mm_set1_epi64x(a) == a \o a

_mm_xor_si128(a, b) == Xor128(a, b)

_mm_add_epi64(a, b) == U64Add(Lo64(a), Lo64(b)) \o U64Add(Hi64(a), Hi64(b))

\* One byte of a shuffle: zero when the top bit of the index byte is set, else the
\* byte of `a` the low four bits of the index byte name.
ShuffledByte(a, index) == IF index >= 128 THEN 0 ELSE a[(index % 16) + 1]

_mm_shuffle_epi8(a, b) ==
    <<ShuffledByte(a, b[1]), ShuffledByte(a, b[2]), ShuffledByte(a, b[3]),
      ShuffledByte(a, b[4]), ShuffledByte(a, b[5]), ShuffledByte(a, b[6]),
      ShuffledByte(a, b[7]), ShuffledByte(a, b[8]), ShuffledByte(a, b[9]),
      ShuffledByte(a, b[10]), ShuffledByte(a, b[11]), ShuffledByte(a, b[12]),
      ShuffledByte(a, b[13]), ShuffledByte(a, b[14]), ShuffledByte(a, b[15]),
      ShuffledByte(a, b[16])>>

\* _mm_load_si128 of the two 64-bit words at pi + i.
PiLoad128(i) == pi[i + 1] \o pi[i + 2]

\* _mm_lddqu_si128((__m128i const *)(start + offset)), and the 512-bit
\* _mm512_loadu_epi8(start + offset).
_mm_lddqu_si128(start, offset) == SubSeq(start, offset + 1, offset + 16)

_mm512_loadu_epi8(start, offset) == SubSeq(start, offset + 1, offset + 64)

\* _sz_u16_mask_until(n) and _sz_u64_mask_until(n): the mask whose n low bits are
\* set, as the set of the byte positions it enables.
_sz_u16_mask_until(n) == {i \in 0 .. 15 : i < n}

_sz_u64_mask_until(n) == {i \in 0 .. 63 : i < n}

\* Bytes first .. last - 1 of a masked load: the bytes of memory the mask k enables
\* and zero at the others, which are not read.
RECURSIVE MaskzLoad(_, _, _, _, _)
MaskzLoad(k, start, offset, first, last) ==
    IF first = last THEN <<>>
    ELSE IF first + 1 = last
    THEN <<IF first \in k THEN start[offset + first + 1] ELSE 0>>
    ELSE MaskzLoad(k, start, offset, first, (first + last) \div 2)
         \o MaskzLoad(k, start, offset, (first + last) \div 2, last)

_mm_maskz_loadu_epi8(k, start, offset) == MaskzLoad(k, start, offset, 0, 16)

_mm512_maskz_loadu_epi8(k, start, offset) == MaskzLoad(k, start, offset, 0, 64)

(***************************************************************************)
(* The Haswell helpers, shared by the Skylake and Ice Lake one-shot hash.  *)
(***************************************************************************)
_sz_hash_minimal_init_haswell(seed) ==
    [key |-> _mm_set1_epi64x(seed),
     aes |-> _mm_xor_si128(_mm_set1_epi64x(seed), PiLoad128(0)),
     sum |-> _mm_xor_si128(_mm_set1_epi64x(seed), PiLoad128(8))]

\* mixed_within_register of the two Haswell finalizers.
MixWithinRegisterHaswell(mixed_registers, key_with_length) ==
    _mm_aesenc_si128(_mm_aesenc_si128(mixed_registers, key_with_length), mixed_registers)

\* _mm_set_epi64x(0, length) is the vector whose low word is length.
_sz_hash_minimal_finalize_haswell(state, length) ==
    Lo64(MixWithinRegisterHaswell(
             _mm_aesenc_si128(state.sum, state.aes),
             _mm_add_epi64(state.key, U64(length) \o U64(0))))

_sz_hash_minimal_update_haswell(state, block) ==
    [state EXCEPT !.aes = _mm_aesenc_si128(@, block),
                  !.sum = _mm_add_epi64(_mm_shuffle_epi8(@, shuffle), block)]

sz_hash_state_init_haswell(seed) ==
    [key |-> _mm_set1_epi64x(seed),
     aes |-> _mm_xor_si128(_mm_set1_epi64x(seed), PiLoad128(0))
             \o _mm_xor_si128(_mm_set1_epi64x(seed), PiLoad128(2))
             \o _mm_xor_si128(_mm_set1_epi64x(seed), PiLoad128(4))
             \o _mm_xor_si128(_mm_set1_epi64x(seed), PiLoad128(6)),
     sum |-> _mm_xor_si128(_mm_set1_epi64x(seed), PiLoad128(8))
             \o _mm_xor_si128(_mm_set1_epi64x(seed), PiLoad128(10))
             \o _mm_xor_si128(_mm_set1_epi64x(seed), PiLoad128(12))
             \o _mm_xor_si128(_mm_set1_epi64x(seed), PiLoad128(14)),
     ins |-> Zeros(64),
     ins_length |-> 0]

_sz_hash_state_update_haswell(state) ==
    [state EXCEPT
        !.aes = _mm_aesenc_si128(Lane(@, 0), Lane(state.ins, 0))
                \o _mm_aesenc_si128(Lane(@, 1), Lane(state.ins, 1))
                \o _mm_aesenc_si128(Lane(@, 2), Lane(state.ins, 2))
                \o _mm_aesenc_si128(Lane(@, 3), Lane(state.ins, 3)),
        !.sum = _mm_add_epi64(_mm_shuffle_epi8(Lane(@, 0), shuffle), Lane(state.ins, 0))
                \o _mm_add_epi64(_mm_shuffle_epi8(Lane(@, 1), shuffle), Lane(state.ins, 1))
                \o _mm_add_epi64(_mm_shuffle_epi8(Lane(@, 2), shuffle), Lane(state.ins, 2))
                \o _mm_add_epi64(_mm_shuffle_epi8(Lane(@, 3), shuffle), Lane(state.ins, 3))]

\* mixed_registers of _sz_hash_state_finalize_haswell, from mixed_registers0..3.
MixRegistersHaswell(mixed_registers0, mixed_registers1, mixed_registers2, mixed_registers3) ==
    _mm_aesenc_si128(_mm_aesenc_si128(mixed_registers0, mixed_registers1),
                     _mm_aesenc_si128(mixed_registers2, mixed_registers3))

_sz_hash_state_finalize_haswell(state) ==
    Lo64(MixWithinRegisterHaswell(
             MixRegistersHaswell(
                 _mm_aesenc_si128(Lane(state.sum, 0), Lane(state.aes, 0)),
                 _mm_aesenc_si128(Lane(state.sum, 1), Lane(state.aes, 1)),
                 _mm_aesenc_si128(Lane(state.sum, 2), Lane(state.aes, 2)),
                 _mm_aesenc_si128(Lane(state.sum, 3), Lane(state.aes, 3))),
             _mm_add_epi64(state.key, U64(state.ins_length) \o U64(0))))

(***************************************************************************)
(* The one-shot hash of the Haswell, Skylake and Ice Lake backends.        *)
(***************************************************************************)
\* The loop of the last branch of sz_hash_haswell.
RECURSIVE HashHaswellBlocks(_, _, _)
HashHaswellBlocks(state, start, length) ==
    IF state.ins_length + 64 <= length
    THEN HashHaswellBlocks(
             [_sz_hash_state_update_haswell(
                  [state EXCEPT !.ins = _mm_lddqu_si128(start, state.ins_length)
                                        \o _mm_lddqu_si128(start, state.ins_length + 16)
                                        \o _mm_lddqu_si128(start, state.ins_length + 32)
                                        \o _mm_lddqu_si128(start, state.ins_length + 48)])
              EXCEPT !.ins_length = @ + 64],
             start, length)
    ELSE state

\* The tail of sz_hash_haswell: the registers are zeroed and the remaining bytes
\* copied one by one to ins.u8s[0], ins.u8s[1], ...
HashHaswellTail(state, start, length) ==
    IF state.ins_length < length
    THEN [_sz_hash_state_update_haswell(
              [state EXCEPT !.ins = SubSeq(start, state.ins_length + 1, length)
                                    \o SubSeq(Zeros(64), length - state.ins_length + 1, 64)])
          EXCEPT !.ins_length = length]
    ELSE state

sz_hash_haswell(start, length, seed) ==
    IF length <= 16
    THEN
         _sz_hash_minimal_finalize_haswell(
             _sz_hash_minimal_update_haswell(
                 _sz_hash_minimal_init_haswell(seed),
                 SubSeq(start, 1, length) \o SubSeq(Zeros(16), length + 1, 16)),
             length)
    ELSE IF length <= 32
    THEN
         _sz_hash_minimal_finalize_haswell(
             _sz_hash_minimal_update_haswell(
                 _sz_hash_minimal_update_haswell(
                     _sz_hash_minimal_init_haswell(seed),
                     _mm_lddqu_si128(start, 0)),
                 _sz_hash_shift_in_register_serial(_mm_lddqu_si128(start, length - 16), 32 - length)),
             length)
    ELSE IF length <= 48
    THEN
         _sz_hash_minimal_finalize_haswell(
             _sz_hash_minimal_update_haswell(
                 _sz_hash_minimal_update_haswell(
                     _sz_hash_minimal_update_haswell(
                         _sz_hash_minimal_init_haswell(seed),
                         _mm_lddqu_si128(start, 0)),
                     _mm_lddqu_si128(start, 16)),
                 _sz_hash_shift_in_register_serial(_mm_lddqu_si128(start, length - 16), 48 - length)),
             length)
    ELSE IF length <= 64
    THEN
         _sz_hash_minimal_finalize_haswell(
             _sz_hash_minimal_update_haswell(
                 _sz_hash_minimal_update_haswell(
                     _sz_hash_minimal_update_haswell(
                         _sz_hash_minimal_update_haswell(
                             _sz_hash_minimal_init_haswell(seed),
                             _mm_lddqu_si128(start, 0)),
                         _mm_lddqu_si128(start, 16)),
                     _mm_lddqu_si128(start, 32)),
                 _sz_hash_shift_in_register_serial(_mm_lddqu_si128(start, length - 16), 64 - length)),
             length)
    ELSE _sz_hash_state_finalize_haswell(
             HashHaswellTail(
                 HashHaswellBlocks(sz_hash_state_init_haswell(seed), start, length),
                 start, length))

\* _mm512_load_epi64 of pi[0..7] and pi[8..15], xored with the broadcast seed.
sz_hash_state_init_skylake(seed) ==
    [key |-> _mm_set1_epi64x(seed),
     aes |-> _mm_xor_si128(_mm_set1_epi64x(seed), PiLoad128(0))
             \o _mm_xor_si128(_mm_set1_epi64x(seed), PiLoad128(2))
             \o _mm_xor_si128(_mm_set1_epi64x(seed), PiLoad128(4))
             \o _mm_xor_si128(_mm_set1_epi64x(seed), PiLoad128(6)),
     sum |-> _mm_xor_si128(_mm_set1_epi64x(seed), PiLoad128(8))
             \o _mm_xor_si128(_mm_set1_epi64x(seed), PiLoad128(10))
             \o _mm_xor_si128(_mm_set1_epi64x(seed), PiLoad128(12))
             \o _mm_xor_si128(_mm_set1_epi64x(seed), PiLoad128(14)),
     ins |-> Zeros(64),
     ins_length |-> 0]

\* The loop and the tail of the last branch of sz_hash_skylake.
RECURSIVE HashSkylakeBlocks(_, _, _)
HashSkylakeBlocks(state, start, length) ==
    IF state.ins_length + 64 <= length
    THEN HashSkylakeBlocks(
             [_sz_hash_state_update_haswell(
                  [state EXCEPT !.ins = _mm512_loadu_epi8(start, state.ins_length)])
              EXCEPT !.ins_length = @ + 64],
             start, length)
    ELSE state

\* A tail load that would enable one byte too few (checks that C9 depends on the
\* mask of the tail).
HashSkylakeTailLoadShort(state, start, length) ==
    _mm512_maskz_loadu_epi8(_sz_u64_mask_until(length - state.ins_length - 1),
                            start, state.ins_length)

HashSkylakeTailLoad(state, start, length) ==
    _mm512_maskz_loadu_epi8(_sz_u64_mask_until(length - state.ins_length),
                            start, state.ins_length)

HashSkylakeTail(state, start, length) ==
    IF state.ins_length < length
    THEN [_sz_hash_state_update_haswell(
              [state EXCEPT !.ins = HashSkylakeTailLoad(state, start, length)])
          EXCEPT !.ins_length = length]
    ELSE state

sz_hash_skylake(start, length, seed) ==
    IF length <= 16
    THEN
         _sz_hash_minimal_finalize_haswell(
             _sz_hash_minimal_update_haswell(
                 _sz_hash_minimal_init_haswell(seed),
                 _mm_maskz_loadu_epi8(_sz_u16_mask_until(length), start, 0)),
             length)
    ELSE IF length <= 32
    THEN
         _sz_hash_minimal_finalize_haswell(
             _sz_hash_minimal_update_haswell(
                 _sz_hash_minimal_update_haswell(
                     _sz_hash_minimal_init_haswell(seed),
                     _mm_lddqu_si128(start, 0)),
                 _mm_maskz_loadu_epi8(_sz_u16_mask_until(length - 16), start, 16)),
             length)
    ELSE IF length <= 48
    THEN
         _sz_hash_minimal_finalize_haswell(
             _sz_hash_minimal_update_haswell(
                 _sz_hash_minimal_update_haswell(
                     _sz_hash_minimal_update_haswell(
                         _sz_hash_minimal_init_haswell(seed),
                         _mm_lddqu_si128(start, 0)),
                     _mm_lddqu_si128(start, 16)),
                 _mm_maskz_loadu_epi8(_sz_u16_mask_until(length - 32), start, 32)),
             length)
    ELSE IF length <= 64
    THEN
         _sz_hash_minimal_finalize_haswell(
             _sz_hash_minimal_update_haswell(
                 _sz_hash_minimal_update_haswell(
                     _sz_hash_minimal_update_haswell(
                         _sz_hash_minimal_update_haswell(
                             _sz_hash_minimal_init_haswell(seed),
                             _mm_lddqu_si128(start, 0)),
                         _mm_lddqu_si128(start, 16)),
                     _mm_lddqu_si128(start, 32)),
                 _mm_maskz_loadu_epi8(_sz_u16_mask_until(length - 48), start, 48)),
             length)
    ELSE _sz_hash_state_finalize_haswell(
             HashSkylakeTail(
                 HashSkylakeBlocks(sz_hash_state_init_skylake(seed), start, length),
                 start, length))

\* _mm512_aesenc_epi128, _mm512_shuffle_epi8 and _mm512_add_epi64 act on each
\* 128-bit lane as their 128-bit forms do.
_sz_hash_state_update_ice(state) ==
    [state EXCEPT
        !.aes = _mm_aesenc_si128(Lane(@, 0), Lane(state.ins, 0))
                \o _mm_aesenc_si128(Lane(@, 1), Lane(state.ins, 1))
                \o _mm_aesenc_si128(Lane(@, 2), Lane(state.ins, 2))
                \o _mm_aesenc_si128(Lane(@, 3), Lane(state.ins, 3)),
        !.sum = _mm_add_epi64(_mm_shuffle_epi8(Lane(@, 0), shuffle), Lane(state.ins, 0))
                \o _mm_add_epi64(_mm_shuffle_epi8(Lane(@, 1), shuffle), Lane(state.ins, 1))
                \o _mm_add_epi64(_mm_shuffle_epi8(Lane(@, 2), shuffle), Lane(state.ins, 2))
                \o _mm_add_epi64(_mm_shuffle_epi8(Lane(@, 3), shuffle), Lane(state.ins, 3))]

\* The loop and the tail of the last branch of sz_hash_ice.
RECURSIVE HashIceBlocks(_, _, _)
HashIceBlocks(state, start, length) ==
    IF state.ins_length + 64 <= length
    THEN HashIceBlocks(
             [_sz_hash_state_update_ice(
                  [state EXCEPT !.ins = _mm512_loadu_epi8(start, state.ins_length)])
              EXCEPT !.ins_length = @ + 64],
             start, length)
    ELSE state

HashIceTail(state, start, length) ==
    IF state.ins_length < length
    THEN [_sz_hash_state_update_ice(
              [state EXCEPT !.ins =
                   _mm512_maskz_loadu_epi8(_sz_u64_mask_until(length - state.ins_length),
                                           start, state.ins_length)])
          EXCEPT !.ins_length = length]
    ELSE state

sz_hash_ice(start, length, seed) ==
    IF length <= 16
    THEN
         _sz_hash_minimal_finalize_haswell(
             _sz_hash_minimal_update_haswell(
                 _sz_hash_minimal_init_haswell(seed),
                 _mm_maskz_loadu_epi8(_sz_u16_mask_until(length), start, 0)),
             length)
    ELSE IF length <= 32
    THEN
         _sz_hash_minimal_finalize_haswell(
             _sz_hash_minimal_update_haswell(
                 _sz_hash_minimal_update_haswell(
                     _sz_hash_minimal_init_haswell(seed),
                     _mm_lddqu_si128(start, 0)),
                 _mm_maskz_loadu_epi8(_sz_u16_mask_until(length - 16), start, 16)),
             length)
    ELSE IF length <= 48
    THEN
         _sz_hash_minimal_finalize_haswell(
             _sz_hash_minimal_update_haswell(
                 _sz_hash_minimal_update_haswell(
                     _sz_hash_minimal_update_haswell(
                         _sz_hash_minimal_init_haswell(seed),
                         _mm_lddqu_si128(start, 0)),
                     _mm_lddqu_si128(start, 16)),
                 _mm_maskz_loadu_epi8(_sz_u16_mask_until(length - 32), start, 32)),
             length)
    ELSE IF length <= 64
    THEN
         _sz_hash_minimal_finalize_haswell(
             _sz_hash_minimal_update_haswell(
                 _sz_hash_minimal_update_haswell(
                     _sz_hash_minimal_update_haswell(
                         _sz_hash_minimal_update_haswell(
                             _sz_hash_minimal_init_haswell(seed),
                             _mm_lddqu_si128(start, 0)),
                         _mm_lddqu_si128(start, 16)),
                     _mm_lddqu_si128(start, 32)),
                 _mm_maskz_loadu_epi8(_sz_u16_mask_until(length - 48), start, 48)),
             length)
    ELSE _sz_hash_state_finalize_haswell(
             HashIceTail(
                 HashIceBlocks(sz_hash_state_init_skylake(seed), start, length),
                 start, length))

(***************************************************************************)
(* The streaming hash of the Haswell, Skylake and Ice Lake backends.       *)
(***************************************************************************)
\* A direct absorb that would load the four vectors of the block in reverse order
\* (checks that C20 depends on the direct path absorbing the block as staged).
StreamHaswellDirectReversed(state, text) ==
    [_sz_hash_state_update_haswell(
         [state EXCEPT !.ins = _mm_lddqu_si128(text, 48) \o _mm_lddqu_si128(text, 32)
                               \o _mm_lddqu_si128(text, 16) \o _mm_lddqu_si128(text, 0)])
     EXCEPT !.ins_length = @ + 64]

\* The first branch of the loop of sz_hash_state_stream_haswell: 64 bytes are loaded
\* from the text into ins and absorbed; ins is left as loaded.
StreamHaswellDirect(state, text) ==
    [_sz_hash_state_update_haswell(
         [state EXCEPT !.ins = _mm_lddqu_si128(text, 0) \o _mm_lddqu_si128(text, 16)
                               \o _mm_lddqu_si128(text, 32) \o _mm_lddqu_si128(text, 48)])
     EXCEPT !.ins_length = @ + 64]

\* The second branch: the serial staging, with the Haswell update.
StreamHaswellStaged(state, text, length) ==
    IF (state.ins_length % 64) + StreamToCopy(state, length) = 64
    THEN [_sz_hash_state_update_haswell(
              StreamAppended(state, text, StreamToCopy(state, length)))
          EXCEPT !.ins = Zeros(64)]
    ELSE StreamAppended(state, text, StreamToCopy(state, length))

RECURSIVE sz_hash_state_stream_haswell(_, _, _)
sz_hash_state_stream_haswell(state, text, length) ==
    IF length = 0 THEN state
    ELSE IF state.ins_length % 64 = 0 /\ length >= 64
    THEN sz_hash_state_stream_haswell(
             StreamHaswellDirect(state, text), SubSeq(text, 65, Len(text)), length - 64)
    ELSE sz_hash_state_stream_haswell(
             StreamHaswellStaged(state, text, length),
             SubSeq(text, StreamToCopy(state, length) + 1, Len(text)),
             length - StreamToCopy(state, length))

\* The minimal state after the updates with ins_vecs[0 .. count - 1].
RECURSIVE FoldHaswellUpdates(_, _, _)
FoldHaswellUpdates(minimal_state, ins, count) ==
    IF count = 0 THEN minimal_state
    ELSE _sz_hash_minimal_update_haswell(
             FoldHaswellUpdates(minimal_state, ins, count - 1), Lane(ins, count - 1))

\* The branches for length <= 16, <= 32, <= 48 and the last make 1, 2, 3 and 4
\* updates.
sz_hash_state_fold_haswell(state) ==
    IF state.ins_length >= 64 THEN _sz_hash_state_finalize_haswell(state)
    ELSE _sz_hash_minimal_finalize_haswell(
             FoldHaswellUpdates(
                 [key |-> state.key, aes |-> Lane(state.aes, 0), sum |-> Lane(state.sum, 0)],
                 state.ins,
                 IF state.ins_length <= 16 THEN 1
                 ELSE IF state.ins_length <= 32 THEN 2
                 ELSE IF state.ins_length <= 48 THEN 3 ELSE 4),
             state.ins_length)

\* Bytes first .. last - 1 of the memory at mem + offset after a masked store of
\* `a`: the bytes of `a` the mask k enables, and what the memory held at the others.
RECURSIVE MaskStore(_, _, _, _, _, _)
MaskStore(mem, offset, k, a, first, last) ==
    IF first >= last THEN <<>>
    ELSE IF first + 1 = last
    THEN <<IF first \in k THEN a[first + 1] ELSE mem[offset + first + 1]>>
    ELSE MaskStore(mem, offset, k, a, first, (first + last) \div 2)
         \o MaskStore(mem, offset, k, a, (first + last) \div 2, last)

\* _mm512_mask_storeu_epi8(mem + offset, k, a), as the content of mem after it.
_mm512_mask_storeu_epi8(mem, offset, k, a) ==
    SubSeq(mem, 1, offset) \o MaskStore(mem, offset, k, a, 0, Len(mem) - offset)

\* The state after the metadata update and the masked copy of to_copy bytes.
StreamMaskStored(state, text, to_copy) ==
    [state EXCEPT
        !.ins_length = @ + to_copy,
        !.ins = _mm512_mask_storeu_epi8(
                    @, state.ins_length % 64, _sz_u64_mask_until(to_copy),
                    _mm512_maskz_loadu_epi8(_sz_u64_mask_until(to_copy), text, 0))]

\* The state after one iteration of the loop of sz_hash_state_stream_skylake.
StreamSkylakeIteration(state, text, length) ==
    IF (state.ins_length % 64) + StreamToCopy(state, length) = 64
    THEN [_sz_hash_state_update_haswell(
              StreamMaskStored(state, text, StreamToCopy(state, length)))
          EXCEPT !.ins = Zeros(64)]
    ELSE StreamMaskStored(state, text, StreamToCopy(state, length))

RECURSIVE sz_hash_state_stream_skylake(_, _, _)
sz_hash_state_stream_skylake(state, text, length) ==
    IF length = 0 THEN state
    ELSE sz_hash_state_stream_skylake(
             StreamSkylakeIteration(state, text, length),
             SubSeq(text, StreamToCopy(state, length) + 1, Len(text)),
             length - StreamToCopy(state, length))

sz_hash_state_fold_skylake(state) == sz_hash_state_fold_haswell(state)

sz_hash_state_init_ice(seed) == sz_hash_state_init_skylake(seed)

\* The state after one iteration of the loop of sz_hash_state_stream_ice.
StreamIceIteration(state, text, length) ==
    IF (state.ins_length % 64) + StreamToCopy(state, length) = 64
    THEN [_sz_hash_state_update_ice(
              StreamMaskStored(state, text, StreamToCopy(state, length)))
          EXCEPT !.ins = Zeros(64)]
    ELSE StreamMaskStored(state, text, StreamToCopy(state, length))

RECURSIVE sz_hash_state_stream_ice(_, _, _)
sz_hash_state_stream_ice(state, text, length) ==
    IF length = 0 THEN state
    ELSE sz_hash_state_stream_ice(
             StreamIceIteration(state, text, length),
             SubSeq(text, StreamToCopy(state, length) + 1, Len(text)),
             length - StreamToCopy(state, length))

sz_hash_state_fold_ice(state) == sz_hash_state_fold_haswell(state)

(***************************************************************************)
(* The generator.  `buffer` is the content of the caller's buffer, of at   *)
(* least `length` bytes; the value is its content after the call.          *)
(***************************************************************************)
\* A block whose key would walk through all 16 words of pi, with period 8 (checks
\* that C11 depends on the key rotating through the first 8 words only).
GeneratedVecPeriod8(nonce, lane_index) ==
    _sz_emulate_aesenc_si128_serial(
        U64Add(nonce, U64(lane_index)) \o U64Add(nonce, U64(lane_index)),
        U64Xor(nonce, Lo64(PiVec(lane_index % 8))) \o U64Xor(nonce, Hi64(PiVec(lane_index % 8))))

\* generated_vec of the iteration lane_index of sz_generate_serial.
GeneratedVec(nonce, lane_index) ==
    _sz_emulate_aesenc_si128_serial(
        U64Add(nonce, U64(lane_index)) \o U64Add(nonce, U64(lane_index)),
        U64Xor(nonce, Lo64(PiVec(lane_index % 4))) \o U64Xor(nonce, Hi64(PiVec(lane_index % 4))))

\* A loop that would export whole 16-byte blocks only (checks that C10 depends on
\* every one of the `length` bytes being written).
RECURSIVE GenerateLoopWholeBlocks(_, _, _, _, _)
GenerateLoopWholeBlocks(buffer, written, length, nonce, lane_index) ==
    IF length < 16 THEN buffer
    ELSE GenerateLoopWholeBlocks(
             SubSeq(buffer, 1, written) \o GeneratedVec(nonce, lane_index)
             \o SubSeq(buffer, written + 17, Len(buffer)),
             written + 16, length - 16, nonce, lane_index + 1)

\* The buffer after iteration lane_index of the outer loop, entered with `written`
\* bytes written and length > 0 left.
GenerateIteration(buffer, written, length, nonce, lane_index) ==
    SubSeq(buffer, 1, written)
    \o SubSeq(GeneratedVec(nonce, lane_index), 1, Min(16, length))
    \o SubSeq(buffer, written + Min(16, length) + 1, Len(buffer))

\* The outer loop from iteration lane_index on, `written` bytes having been written
\* and `length` being left: the inner loop exports min(16, length) bytes.
RECURSIVE GenerateLoop(_, _, _, _, _)
GenerateLoop(buffer, written, length, nonce, lane_index) ==
    IF length = 0 THEN buffer
    ELSE GenerateLoop(
             GenerateIteration(buffer, written, length, nonce, lane_index),
             written + Min(16, length), length - Min(16, length), nonce, lane_index + 1)

sz_generate_serial(buffer, length, nonce) == GenerateLoop(buffer, 0, length, nonce, 0)

\* Writing `bytes` to text + offset: _mm_storeu_si128, or a loop of byte stores.
Store(buffer, offset, bytes) ==
    SubSeq(buffer, 1, offset) \o bytes \o SubSeq(buffer, offset + Len(bytes) + 1, Len(buffer))

\* generated[k] of the branches of sz_generate_haswell for at most 48 bytes.
GeneratedHaswell(nonce, k) ==
    _mm_aesenc_si128(_mm_set1_epi64x(U64Add(nonce, U64(k))),
                     _mm_xor_si128(_mm_set1_epi64x(nonce), PiLoad128(2 * k)))

\* inputs[0..3] and keys[0..3] of the last branch of sz_generate_haswell.
GenerateInputs(nonce) ==
    <<_mm_set1_epi64x(nonce), _mm_set1_epi64x(U64Add(nonce, U64(1))),
      _mm_set1_epi64x(U64Add(nonce, U64(2))), _mm_set1_epi64x(U64Add(nonce, U64(3)))>>

GenerateKeys(nonce) ==
    <<_mm_xor_si128(_mm_set1_epi64x(nonce), PiLoad128(0)),
      _mm_xor_si128(_mm_set1_epi64x(nonce), PiLoad128(2)),
      _mm_xor_si128(_mm_set1_epi64x(nonce), PiLoad128(4)),
      _mm_xor_si128(_mm_set1_epi64x(nonce), PiLoad128(6))>>

\* An increment that would advance the four counters by one.
GenerateIncrementByOne(inputs) ==
    <<_mm_add_epi64(inputs[1], _mm_set1_epi64x(U64(1))),
      _mm_add_epi64(inputs[2], _mm_set1_epi64x(U64(1))),
      _mm_add_epi64(inputs[3], _mm_set1_epi64x(U64(1))),
      _mm_add_epi64(inputs[4], _mm_set1_epi64x(U64(1)))>>

\* inputs[k] = _mm_add_epi64(inputs[k], increment) for the four k.
GenerateIncrement(inputs) ==
    <<_mm_add_epi64(inputs[1], _mm_set1_epi64x(U64(4))),
      _mm_add_epi64(inputs[2], _mm_set1_epi64x(U64(4))),
      _mm_add_epi64(inputs[3], _mm_set1_epi64x(U64(4))),
      _mm_add_epi64(inputs[4], _mm_set1_epi64x(U64(4)))>>

\* generated[0..3], as the 64 bytes they occupy in memory.
Generated4(inputs, keys) ==
    _mm_aesenc_si128(inputs[1], keys[1]) \o _mm_aesenc_si128(inputs[2], keys[2])
    \o _mm_aesenc_si128(inputs[3], keys[3]) \o _mm_aesenc_si128(inputs[4], keys[4])

\* A loop whose tail would be stored as whole 16-byte vectors (checks that C12
\* depends on the tail being stored byte by byte up to `length`).
RECURSIVE GenerateHaswellLoopVectorTail(_, _, _, _, _)
GenerateHaswellLoopVectorTail(buffer, i, length, inputs, keys) ==
    IF i + 64 <= length
    THEN GenerateHaswellLoopVectorTail(Store(buffer, i, Generated4(inputs, keys)), i + 64,
                                       length, GenerateIncrement(inputs), keys)
    ELSE Store(buffer, i,
               SubSeq(Generated4(inputs, keys), 1,
                      Min(Len(buffer) - i, 16 * ((length - i + 15) \div 16))))

\* The primary loop of sz_generate_haswell from offset i on, and the tail after it.
RECURSIVE GenerateHaswellLoop(_, _, _, _, _)
GenerateHaswellLoop(buffer, i, length, inputs, keys) ==
    IF i + 64 <= length
    THEN GenerateHaswellLoop(Store(buffer, i, Generated4(inputs, keys)), i + 64, length,
                             GenerateIncrement(inputs), keys)
    ELSE Store(buffer, i, SubSeq(Generated4(inputs, keys), 1, length - i))

sz_generate_haswell(buffer, length, nonce) ==
    IF length <= 16
    THEN Store(buffer, 0, SubSeq(GeneratedHaswell(nonce, 0), 1, length))
    ELSE IF length <= 32
    THEN Store(Store(buffer, 0, GeneratedHaswell(nonce, 0)),
               16, SubSeq(GeneratedHaswell(nonce, 1), 1, length - 16))
    ELSE IF length <= 48
    THEN Store(Store(Store(buffer, 0, GeneratedHaswell(nonce, 0)),
                     16, GeneratedHaswell(nonce, 1)),
               32, SubSeq(GeneratedHaswell(nonce, 2), 1, length - 32))
    ELSE GenerateHaswellLoop(buffer, 0, length, GenerateInputs(nonce), GenerateKeys(nonce))

(***************************************************************************)
(* Inputs of the model.                                                    *)
(***************************************************************************)
\* The seeds tried: 0 and 2^64 - 1 (adding a length to the latter carries through
\* every byte of the key's low word).
Seeds == {U64(0), <<255, 255, 255, 255, 255, 255, 255, 255>>}

\* The byte at offset p of the caller's data, for each of the data sets tried:
\* 0 is a ramp that runs through all byte values, 1 is all zero bytes (a text that
\* zero padding cannot be told from), 2 is all 0xFF bytes, 3 is "hihihi...".
TextByte(d, p) ==
    IF d = 0 THEN (37 * p + 11) % 256
    ELSE IF d = 1 THEN 0
    ELSE IF d = 2 THEN 255
    ELSE 104 + (p % 2)

\* The n bytes at offsets p .. p+n-1 of data set d (built by halving).
RECURSIVE TextBytes(_, _, _)
TextBytes(d, p, n) ==
    IF n = 0 THEN <<>>
    ELSE IF n = 1 THEN <<TextByte(d, p)>>
    ELSE TextBytes(d, p, n \div 2) \o TextBytes(d, p + (n \div 2), n - (n \div 2))

\* The data sets and the chunk lengths of the streaming specification.
Contents == {0, 1}
ChunkLens == {0, 1, 15, 16, 17, 33, 63, 64, 65}

(***************************************************************************)
(* The byte checksum.  A text argument is a pointer [data, addr]: the byte *)
(* at address x of the memory image `data` is TextByte(data, x).  A 64-bit *)
(* accumulator is kept as the integer it is congruent to modulo 2^64: no   *)
(* text of this model is longer than 2^21 bytes, so no accumulator reaches *)
(* 2^31 in magnitude and two accumulators are congruent exactly when the   *)
(* integers are equal.  U64OfInt gives the 64-bit word.                    *)
(***************************************************************************)
\* The sz_u64_t congruent to v modulo 2^64, for -2^31 < v < 2^31: a negative v is
\* the bitwise complement of -v - 1.
U64Not(w) ==
    <<255 - w[1], 255 - w[2], 255 - w[3], 255 - w[4],
      255 - w[5], 255 - w[6], 255 - w[7], 255 - w[8]>>

U64OfInt(v) == IF v >= 0 THEN U64(v) ELSE U64Not(U64(-v - 1))

\* text + n
PtrAdd(text, n) == [text EXCEPT !.addr = @ + n]

\* A read that would take the byte as a signed char (checks that C6 depends on the
\* cast to sz_u8_t).
ReadS8(text, i) ==
    IF TextByte(text.data, text.addr + i) >= 128
    THEN TextByte(text.data, text.addr + i) - 256
    ELSE TextByte(text.data, text.addr + i)

\* ((sz_u8_t const *)text)[i]
ReadU8(text, i) == TextByte(text.data, text.addr + i)

\* text[i] read through sz_cptr_t, a pointer to char, and converted to sz_u64_t as
\* `result += text[i]` converts it: whether char is signed is up to the build.
ReadChar(char_is_signed, text, i) ==
    IF char_is_signed /\ ReadU8(text, i) >= 128 THEN ReadU8(text, i) - 256 ELSE ReadU8(text, i)

\* A loop that would start at the second byte (checks that C7 depends on every
\* byte of both parts being added).
RECURSIVE BytesumLoopFromSecond(_, _)
BytesumLoopFromSecond(text, length) ==
    IF length <= 1 THEN 0
    ELSE ReadU8(text, length - 1) + BytesumLoopFromSecond(text, length - 1)

\* The loop `for (; text_u8 != text_end; ++text_u8) bytesum += *text_u8` over the
\* `length` bytes at text.  It is evaluated by halves, which integer addition
\* allows, because TLC cannot nest a million evaluations.
RECURSIVE BytesumLoop(_, _)
BytesumLoop(text, length) ==
    IF length = 0 THEN 0
    ELSE IF length = 1 THEN ReadU8(text, 0)
    ELSE BytesumLoop(text, length \div 2)
         + BytesumLoop(PtrAdd(text, length \div 2), length - (length \div 2))

sz_bytesum_serial(text, length) == U64OfInt(BytesumLoop(text, length))

\* _mm256_sad_epu8(load of the 32 bytes at text, zero): four 64-bit lanes, each
\* the sum of 8 consecutive bytes.
Sad64(text, i) ==
    ReadU8(text, i) + ReadU8(text, i + 1) + ReadU8(text, i + 2) + ReadU8(text, i + 3)
    + ReadU8(text, i + 4) + ReadU8(text, i + 5) + ReadU8(text, i + 6) + ReadU8(text, i + 7)

SadLoad256(text) == <<Sad64(text, 0), Sad64(text, 8), Sad64(text, 16), Sad64(text, 24)>>

\* _mm256_add_epi64
Add64x4(a, b) == <<a[1] + b[1], a[2] + b[2], a[3] + b[3], a[4] + b[4]>>

\* sums_vec after `count` iterations of a loop whose k-th iteration adds the
\* vector loaded at text + k * step; by halves, as BytesumLoop.
RECURSIVE SadLoop(_, _, _)
SadLoop(text, step, count) ==
    IF count = 0 THEN <<0, 0, 0, 0>>
    ELSE IF count = 1 THEN SadLoad256(text)
    ELSE Add64x4(SadLoop(text, step, count \div 2),
                 SadLoop(PtrAdd(text, step * (count \div 2)), step, count - (count \div 2)))

\* low + high of sums_xmm = low_xmm + high_xmm.
HorizontalSum(sums_vec) == (sums_vec[1] + sums_vec[3]) + (sums_vec[2] + sums_vec[4])

\* The sum of text[first .. first + count - 1] read as char: the head and tail loops.
RECURSIVE CharLoop(_, _, _, _)
CharLoop(char_is_signed, text, first, count) ==
    IF count = 0 THEN 0
    ELSE ReadChar(char_is_signed, text, first)
         + CharLoop(char_is_signed, text, first + 1, count - 1)

\* The body of the last branch of sz_bytesum_haswell: sums_vec after its loops.
HaswellBodySums(is_huge, text, body_length) ==
    IF ~is_huge
    THEN SadLoop(text, 32, body_length \div 32)
    ELSE Add64x4(
             Add64x4(SadLoop(text, 32, body_length \div 64),
                     IF body_length - 64 * (body_length \div 64) >= 32
                     THEN SadLoad256(PtrAdd(text, 32 * (body_length \div 64)))
                     ELSE <<0, 0, 0, 0>>),
             SadLoop(PtrAdd(text, body_length - 32), -32, body_length \div 64))

HaswellAligned(char_is_signed, is_huge, text, length, head_length, tail_length) ==
    U64OfInt(CharLoop(char_is_signed, text, length - tail_length, tail_length)
             + CharLoop(char_is_signed, text, 0, head_length)
             + HorizontalSum(HaswellBodySums(is_huge, PtrAdd(text, head_length),
                                             length - head_length - tail_length)))

\* The branch for 32 < length <= 1 MiB: unaligned loads, then the serial remainder.
HaswellUnaligned(text, length) ==
    IF length % 32 # 0
    THEN U64Add(U64OfInt(HorizontalSum(SadLoop(text, 32, length \div 32))),
                sz_bytesum_serial(PtrAdd(text, 32 * (length \div 32)), length % 32))
    ELSE U64OfInt(HorizontalSum(SadLoop(text, 32, length \div 32)))

sz_bytesum_haswell(char_is_signed, text, length) ==
    IF length <= 32 THEN sz_bytesum_serial(text, length)
    ELSE IF ~(length > 1 * 1024 * 1024) THEN HaswellUnaligned(text, length)
    ELSE HaswellAligned(char_is_signed, length > 1 * 1024 * 1024, text, length,
                        (32 - (text.addr % 32)) % 32, (text.addr + length) % 32)

\* No value returned yet.
None == <<>>

(***************************************************************************)
(* State.                                                                  *)
(*   states   - the sz_hash_state_t objects of the callers: two, or in     *)
(*              SpecBackends four, one per backend                         *)
(*   streamed - per state, the bytes streamed into it since its init       *)
(*   digest   - per state, the value the last call returned if that call   *)
(*              was a fold, None otherwise                                 *)
(*   equal    - <<b>> if the last call was sz_hash_state_equal on the two   *)
(*              states and returned b, None otherwise                      *)
(*   content  - the data set the callers stream from; in SpecGen the two   *)
(*              data sets the buffers were filled from                     *)
(*   call     - the arguments of the calls of the callers: of the one call *)
(*              of the checksum, hash or generator, of the call that is    *)
(*              running in SpecTotal, with its locals in SpecRoute and in  *)
(*              SpecKernels, and in SpecCalls per caller the lengths it    *)
(*              passed to stream since its init; None when there is none   *)
(*   returned - what its calls returned, None before the first; in         *)
(*              SpecTotal the call that returned last                      *)
(*   buffers  - the two output buffers of the callers of sz_generate       *)
(***************************************************************************)
VARIABLES states, streamed, digest, equal, content, call, returned, buffers

vars == <<states, streamed, digest, equal, content, call, returned, buffers>>

\* sz_hash_state_init on state h.
StateInit(h, seed) ==
    /\ states' = [states EXCEPT ![h] = sz_hash_state_init_serial(seed)]
    /\ streamed' = [streamed EXCEPT ![h] = <<>>]
    /\ digest' = [digest EXCEPT ![h] = None]
    /\ equal' = None
    /\ UNCHANGED <<content, buffers, call, returned>>

\* sz_hash_state_stream on state h with the bytes `text`.
StateStream(h, text) ==
    /\ states' = [states EXCEPT ![h] = sz_hash_state_stream_serial(@, text, Len(text))]
    /\ streamed' = [streamed EXCEPT ![h] = @ \o text]
    /\ digest' = [digest EXCEPT ![h] = None]
    /\ equal' = None
    /\ UNCHANGED <<content, buffers, call, returned>>

\* A fold that would absorb the pending buffer into the state it is given and clear
\* the buffer (checks that C3 depends on the fold writing nothing).
StateFoldAbsorbing(h) ==
    /\ digest' = [digest EXCEPT ![h] = sz_hash_state_fold_serial(states[h])]
    /\ states' = [states EXCEPT ![h] =
                      [_sz_hash_state_update_serial(@) EXCEPT !.ins = Zeros(64)]]
    /\ equal' = None
    /\ UNCHANGED <<streamed, content, buffers, call, returned>>

\* sz_hash_state_fold on state h: the state is passed as a pointer to const and
\* the function writes only to its own locals.
StateFold(h) ==
    /\ digest' = [digest EXCEPT ![h] = sz_hash_state_fold_serial(states[h])]
    /\ equal' = None
    /\ UNCHANGED <<states, streamed, content, buffers, call, returned>>

(***************************************************************************)
(* Spec: one caller initialises state 1, streams chunks of its data into   *)
(* it and folds it, in any order.                                          *)
(***************************************************************************)
Init ==
    /\ \E seed \in Seeds :
           states = <<sz_hash_state_init_serial(seed), sz_hash_state_init_serial(seed)>>
    /\ streamed = <<<<>>, <<>>>>
    /\ digest = <<None, None>>
    /\ equal = None
    /\ content \in Contents
    /\ call = None /\ returned = None /\ buffers = <<<<>>, <<>>>>

Reinit == \E seed \in Seeds : StateInit(1, seed)

StreamChunk ==
    \E n \in ChunkLens :
        /\ Len(streamed[1]) + n <= MaxTotal
        /\ StateStream(1, TextBytes(content, Len(streamed[1]), n))

Fold == StateFold(1)

Next == Reinit \/ StreamChunk \/ Fold

Spec == Init /\ [][Next]_vars

\* The seed state h was initialised with: init stores it in both words of key and
\* nothing else writes key.
SeedOf(h) == Lo64(states[h].key)

(***************************************************************************)
(* Claims about the streaming hash (Spec).                                 *)
(***************************************************************************)
\* C1 (as stated): whenever the last call on state 1 was a fold, the value it
\* returned is sz_hash_serial of all the bytes streamed since init, with the seed
\* of the init, whatever the partition into chunks was.
C1_StreamingEquivalence ==
    digest[1] # None =>
        digest[1] = sz_hash_serial(streamed[1], Len(streamed[1]), SeedOf(1))

\* The number of minimal updates C2 names for a total length below 64.
C2_Updates(length) ==
    IF length <= 16 THEN 1 ELSE IF length <= 32 THEN 2 ELSE IF length <= 48 THEN 3 ELSE 4

\* The k-th 16-byte block (k = 0..3) of a text shorter than 64 bytes, zero padded.
C2_Block(text, k) ==
    LET from == Min(16 * k, Len(text))
        to == Min(16 * k + 16, Len(text))
    IN  SubSeq(text, from + 1, to) \o Zeros(16 - (to - from))

\* `count` minimal updates with the first blocks of the text, in order.
RECURSIVE C2_Absorb(_, _, _)
C2_Absorb(minimal, text, count) ==
    IF count = 0 THEN minimal
    ELSE _sz_hash_minimal_update_serial(
             C2_Absorb(minimal, text, count - 1), C2_Block(text, count - 1))

\* C2: when fewer than 64 bytes were streamed since init, the fold returns the
\* minimal finalize (with the length) of the minimal state made of the key and
\* lane 0 of aes and sum after 1, 2, 3 or 4 minimal updates with the zero-padded
\* 16-byte blocks of the streamed bytes, and that value is sz_hash_serial of the
\* same bytes and seed.
C2_FoldToMinimal ==
    (digest[1] # None /\ Len(streamed[1]) < 64) =>
        LET text == streamed[1]
            minimal == [key |-> states[1].key,
                        aes |-> Lane(states[1].aes, 0),
                        sum |-> Lane(states[1].sum, 0)]
        IN  /\ digest[1] = _sz_hash_minimal_finalize_serial(
                               C2_Absorb(minimal, text, C2_Updates(Len(text))), Len(text))
            /\ digest[1] = sz_hash_serial(text, Len(text), SeedOf(1))

\* C2 witness: a fold of 34 bytes of the ramp (34 is no chunk length, so the bytes
\* came in several chunks) under a seed whose low bytes carry when the length is
\* added.
C2_Witness ==
    /\ digest[1] # None /\ Len(streamed[1]) = 34 /\ content = 0
    /\ SeedOf(1) = <<255, 255, 255, 255, 255, 255, 255, 255>>

\* The state that init followed by one stream call with all the bytes streamed so
\* far gives: no fold takes part in it.
C3_Replayed ==
    sz_hash_state_stream_serial(
        sz_hash_state_init_serial(SeedOf(1)), streamed[1], Len(streamed[1]))

\* C3: a step that returns a digest leaves every field of both states unchanged;
\* a fold that follows a fold returns the same value; and at any time the state
\* is the one the stream calls alone produce, so that a digest is the digest of
\* the stream calls with every earlier fold removed.
C3_DigestNonDestructive ==
    /\ [][digest'[1] # None => states' = states]_vars
    /\ [][(digest[1] # None /\ digest'[1] # None) => digest'[1] = digest[1]]_vars
    /\ [](/\ states[1] = C3_Replayed
          /\ digest[1] # None => digest[1] = sz_hash_state_fold_serial(C3_Replayed))

\* C3 witness: a digest of 80 bytes (64 absorbed and 16 pending in the buffer).
C3_Witness ==
    digest[1] # None /\ Len(streamed[1]) = 80 /\ states[1].ins # Zeros(64)
(***************************************************************************)
(* SpecEq: two callers, each with its own state.  Each streams half blocks *)
(* of 32 bytes until its first block is absorbed and then tail pieces of 8 *)
(* bytes, choosing the data set anew for every piece, and the two states   *)
(* are compared at any time.                                               *)
(***************************************************************************)
\* The longest byte string streamed into one state in SpecEq.
MaxEqTotal == 80

EqContents == {0, 1}

InitEq ==
    /\ \E lhs_seed \in Seeds, rhs_seed \in Seeds :
           states = <<sz_hash_state_init_serial(lhs_seed), sz_hash_state_init_serial(rhs_seed)>>
    /\ streamed = <<<<>>, <<>>>>
    /\ digest = <<None, None>>
    /\ equal = None
    /\ content = 0
    /\ call = None /\ returned = None /\ buffers = <<<<>>, <<>>>>

StreamHalfBlock ==
    \E h \in {1, 2}, d \in EqContents :
        /\ Len(streamed[h]) < 64
        /\ StateStream(h, TextBytes(d, Len(streamed[h]), 32))

StreamTailPiece ==
    \E h \in {1, 2}, d \in EqContents :
        /\ Len(streamed[h]) >= 64
        /\ Len(streamed[h]) + 8 <= MaxEqTotal
        /\ StateStream(h, TextBytes(d, Len(streamed[h]), 8))

\* sz_hash_state_equal(&states[1], &states[2]): both states are pointers to const.
Compare ==
    /\ equal' = <<sz_hash_state_equal(states[1], states[2])>>
    /\ UNCHANGED <<states, streamed, digest, content, buffers, call, returned>>

NextEq == StreamHalfBlock \/ StreamTailPiece \/ Compare

SpecEq == InitEq /\ [][NextEq]_vars

(***************************************************************************)
(* Claims about sz_hash_state_equal (SpecEq).                              *)
(***************************************************************************)
\* The 64-byte blocks a state has completed absorbing, as one byte string.
C4_Blocks(text) == SubSeq(text, 1, 64 * (Len(text) \div 64))

\* The state with its input buffer and byte counter reset.
C4_WithoutTail(state) == [state EXCEPT !.ins = Zeros(64), !.ins_length = 0]

\* C4: when the two states were initialised with the same seed and have completed
\* absorbing the same sequence of 64-byte blocks, sz_hash_state_equal returned
\* true, whatever tail bytes each holds; and the value returned is the one it
\* returns on the same states with their ins and ins_length reset.
C4_StateEqualIgnoresTail ==
    equal # None =>
        /\ (SeedOf(1) = SeedOf(2) /\ C4_Blocks(streamed[1]) = C4_Blocks(streamed[2]))
               => equal = <<TRUE>>
        /\ equal = <<sz_hash_state_equal(C4_WithoutTail(states[1]), C4_WithoutTail(states[2]))>>

\* Both states absorbed the same block and hold tails of different length and content.
C4_Witness ==
    /\ equal = <<TRUE>>
    /\ Len(streamed[1]) = 72 /\ Len(streamed[2]) = 80
    /\ SubSeq(streamed[1], 65, 72) # SubSeq(streamed[2], 65, 72)
    /\ states[1].ins # states[2].ins

\* C5 (as stated): sz_hash_state_equal returned true if and only if the whole of
\* aes (four lanes), the whole of sum (four lanes) and both words of key are equal
\* in the two states.
C5_StateEqualComparesAll ==
    equal # None =>
        (equal = <<TRUE>> <=> (/\ states[1].aes = states[2].aes
                               /\ states[1].sum = states[2].sum
                               /\ states[1].key = states[2].key))
(***************************************************************************)
(* SpecSum: a caller checksums a text with sz_bytesum_serial, then the two *)
(* parts of that text at any split point.                                  *)
(***************************************************************************)
\* The longest text of SpecSum.
MaxSumLen == 40

SumContents == {0, 2, 3}
SumAddrs == {0, 7}

\* No hash state is in use: both are as initialised.
HashIdle ==
    /\ states = <<sz_hash_state_init_serial(U64(0)), sz_hash_state_init_serial(U64(0))>>
    /\ streamed = <<<<>>, <<>>>>
    /\ digest = <<None, None>>
    /\ equal = None
    /\ content = 0

InitSum ==
    /\ HashIdle
    /\ buffers = <<<<>>, <<>>>>
    /\ \E d \in SumContents, a \in SumAddrs, n \in 0 .. MaxSumLen :
           call = [text |-> [data |-> d, addr |-> a], length |-> n, split |-> None]
    /\ returned = None

Bytesum ==
    /\ returned = None
    /\ returned' = [whole |-> sz_bytesum_serial(call.text, call.length), parts |-> None]
    /\ UNCHANGED <<states, streamed, digest, equal, content, buffers, call>>

\* Two more calls, on the first k bytes of the text and on the rest.
BytesumParts ==
    /\ returned # None /\ call.split = None
    /\ \E k \in 0 .. call.length :
           /\ call' = [call EXCEPT !.split = <<k>>]
           /\ returned' = [returned EXCEPT !.parts =
                               <<sz_bytesum_serial(call.text, k),
                                 sz_bytesum_serial(PtrAdd(call.text, k), call.length - k)>>]
    /\ UNCHANGED <<states, streamed, digest, equal, content, buffers>>

NextSum == Bytesum \/ BytesumParts

SpecSum == InitSum /\ [][NextSum]_vars

(***************************************************************************)
(* Claims about the checksum (SpecSum).                                    *)
(***************************************************************************)
\* The bytes of the text of the last call, and a reference accumulator over them.
C6_Bytes(text, length) == TextBytes(text.data, text.addr, length)

RECURSIVE C6_NaiveSum(_)
C6_NaiveSum(bytes) == IF bytes = <<>> THEN 0 ELSE Head(bytes) + C6_NaiveSum(Tail(bytes))

\* C6: the checksum returned for a text is the sum of its bytes, each taken as a
\* value 0..255, as a 64-bit word; the text "hi" gives 209.
C6_ChecksumTotality ==
    returned # None =>
        /\ returned.whole = U64(C6_NaiveSum(C6_Bytes(call.text, call.length)))
        /\ C6_Bytes(call.text, call.length) = <<104, 105>> => returned.whole = U64(209)

\* A text with bytes of 0x80 and above was summed.
C6_Witness ==
    /\ returned # None /\ call.length = MaxSumLen /\ call.text.data = 0
    /\ \E i \in 1 .. call.length : C6_Bytes(call.text, call.length)[i] >= 128
    /\ returned.whole = U64(C6_NaiveSum(C6_Bytes(call.text, call.length)))

\* C7: at every split point, the two ends included, the checksums of the two
\* parts add up, modulo 2^64, to the checksum of the whole.
C7_ChecksumAdditivity ==
    (returned # None /\ call.split # None) =>
        returned.whole = U64Add(returned.parts[1], returned.parts[2])

\* A split strictly inside a text whose parts both have a non-zero checksum.
C7_Witness ==
    /\ returned # None /\ call.split = <<13>> /\ call.length = 30
    /\ returned.parts[1] # U64(0) /\ returned.parts[2] # U64(0)
    /\ returned.whole = U64Add(returned.parts[1], returned.parts[2])
(***************************************************************************)
(* SpecSumHaswell: a caller checksums a text with sz_bytesum_haswell and   *)
(* with sz_bytesum_serial, in a build whose char is signed or unsigned.    *)
(* The texts are all short ones at three alignments and two longer than    *)
(* 1 MiB.                                                                  *)
(***************************************************************************)
\* The longest of the short texts of SpecSumHaswell.
MaxHaswellLen == 70

HaswellContents == {0, 2}
HaswellAddrs == {0, 1, 31}

\* Above 1 MiB: an unaligned start with 31 head bytes, 2 tail bytes and an odd
\* number of 32-byte vectors between them, all bytes 0xFF; an aligned start with
\* 5 tail bytes and an even number of vectors, bytes of all values.
HugeInputs ==
    {[text |-> [data |-> 2, addr |-> 1], length |-> 1024 * 1024 + 1],
     [text |-> [data |-> 0, addr |-> 0], length |-> 1024 * 1024 + 69]}

HaswellInputs ==
    {[text |-> [data |-> d, addr |-> a], length |-> n] :
         d \in HaswellContents, a \in HaswellAddrs, n \in 0 .. MaxHaswellLen}
    \cup HugeInputs

InitSumHaswell ==
    /\ HashIdle
    /\ buffers = <<<<>>, <<>>>>
    /\ \E input \in HaswellInputs, char_is_signed \in BOOLEAN :
           call = [text |-> input.text, length |-> input.length,
                   char_is_signed |-> char_is_signed]
    /\ returned = None

BytesumHaswell ==
    /\ returned = None
    /\ returned' = [haswell |-> sz_bytesum_haswell(call.char_is_signed, call.text, call.length),
                    serial |-> sz_bytesum_serial(call.text, call.length)]
    /\ UNCHANGED <<states, streamed, digest, equal, content, buffers, call>>

SpecSumHaswell == InitSumHaswell /\ [][BytesumHaswell]_vars

\* C8 (as stated): for every length, alignment and content, in each of its three
\* branches, sz_bytesum_haswell returns what sz_bytesum_serial returns.
C8_HaswellMatchesSerial ==
    returned # None => returned.haswell = returned.serial
(***************************************************************************)
(* SpecHash: a caller hashes one text with one seed through each of the    *)
(* four one-shot backends.                                                 *)
(***************************************************************************)
\* The longest text of SpecHash.
MaxHashLen == 130

HashContents == {0, 2}

InitHash ==
    /\ HashIdle
    /\ buffers = <<<<>>, <<>>>>
    /\ \E d \in HashContents, n \in 0 .. MaxHashLen, seed \in Seeds :
           call = [start |-> TextBytes(d, 0, n), length |-> n, seed |-> seed]
    /\ returned = None

Hash ==
    /\ returned = None
    /\ returned' = [serial |-> sz_hash_serial(call.start, call.length, call.seed),
                    haswell |-> sz_hash_haswell(call.start, call.length, call.seed),
                    skylake |-> sz_hash_skylake(call.start, call.length, call.seed),
                    ice |-> sz_hash_ice(call.start, call.length, call.seed)]
    /\ UNCHANGED <<states, streamed, digest, equal, content, buffers, call>>

SpecHash == InitHash /\ [][Hash]_vars

\* C9: for every text and seed, in every length class, the Haswell, Skylake and
\* Ice Lake one-shot hashes return the value the serial one returns.
C9_BackendsAgree ==
    returned # None =>
        /\ returned.haswell = returned.serial
        /\ returned.skylake = returned.serial
        /\ returned.ice = returned.serial

\* A text of one full block and a tail was hashed by the four backends.
C9_Witness ==
    /\ returned # None /\ call.length = 77 /\ call.start[70] >= 128
    /\ returned.skylake = returned.serial /\ returned.haswell = returned.ice
(***************************************************************************)
(* SpecGen: two callers, each with a buffer that holds whatever it held,   *)
(* each calling sz_generate once with a nonce and a length.  `content`     *)
(* names the two data sets the buffers were filled from before the calls.  *)
(***************************************************************************)
\* The size of each buffer of SpecGen.
MaxGenLen == 100

Nonces == {U64(0), <<255, 255, 255, 255, 255, 255, 255, 255>>}
GenLens == {0, 16, 17, 33, 49, 64, 65, 81, MaxGenLen}
GenPriors == {0, 2}

InitGen ==
    /\ states = <<sz_hash_state_init_serial(U64(0)), sz_hash_state_init_serial(U64(0))>>
    /\ streamed = <<<<>>, <<>>>>
    /\ digest = <<None, None>>
    /\ equal = None
    /\ call = <<None, None>>
    /\ returned = None
    /\ content \in GenPriors \X GenPriors
    /\ buffers = <<TextBytes(content[1], 0, MaxGenLen), TextBytes(content[2], 0, MaxGenLen)>>

Generate ==
    \E b \in {1, 2}, nonce \in Nonces, length \in GenLens :
        /\ call[b] = None
        /\ buffers' = [buffers EXCEPT ![b] = sz_generate_serial(@, length, nonce)]
        /\ call' = [call EXCEPT ![b] =
                        [nonce |-> nonce, length |-> length, backend |-> "serial"]]
        /\ UNCHANGED <<states, streamed, digest, equal, content, returned>>

GenerateHaswell ==
    \E b \in {1, 2}, nonce \in Nonces, length \in GenLens :
        /\ call[b] = None
        /\ buffers' = [buffers EXCEPT ![b] = sz_generate_haswell(@, length, nonce)]
        /\ call' = [call EXCEPT ![b] =
                        [nonce |-> nonce, length |-> length, backend |-> "haswell"]]
        /\ UNCHANGED <<states, streamed, digest, equal, content, returned>>

NextGen == Generate \/ GenerateHaswell

SpecGen == InitGen /\ [][NextGen]_vars

\* C10: two calls with the same nonce and the same length leave the same `length`
\* bytes in their buffers, whatever the buffers held before.
C10_GenerateDeterministic ==
    (call[1] # None /\ call[2] = call[1]) =>
        SubSeq(buffers[1], 1, call[1].length) = SubSeq(buffers[2], 1, call[2].length)

\* Two buffers of different prior content were filled for 33 bytes with one nonce.
C10_Witness ==
    /\ call[1] # None /\ call[2] = call[1] /\ call[1].length = 33
    /\ SubSeq(buffers[1], 34, MaxGenLen) # SubSeq(buffers[2], 34, MaxGenLen)
    /\ SubSeq(buffers[1], 1, 33) = SubSeq(buffers[2], 1, 33)

\* AES_round(I_i, K_i) of the block schedule: I_i = (nonce + i, nonce + i) modulo
\* 2^64 and K_i = (nonce XOR pi[2 (i mod 4)], nonce XOR pi[2 (i mod 4) + 1]).
C11_Block(nonce, i) ==
    _sz_emulate_aesenc_si128_serial(
        U64Add(nonce, U64(i)) \o U64Add(nonce, U64(i)),
        U64Xor(nonce, pi[2 * (i % 4) + 1]) \o U64Xor(nonce, pi[2 * (i % 4) + 2]))

\* The bytes of block i that lie below `length`.
C11_Written(buffer, i, length) == SubSeq(buffer, 16 * i + 1, Min(16 * i + 16, length))

\* C11: the bytes sz_generate_serial writes at [16i, 16i+16) are AES_round(I_i, K_i)
\* (the leading bytes of it in a truncated last block); the key of block i + 4 is
\* the key of block i and its counter is not.
C11_BlockSchedule ==
    \A b \in {1, 2} :
        (call[b] # None /\ call[b].backend = "serial") =>
            \A i \in 0 .. (MaxGenLen \div 16) :
                /\ 16 * i < call[b].length =>
                       C11_Written(buffers[b], i, call[b].length)
                           = SubSeq(C11_Block(call[b].nonce, i), 1,
                                    Min(16, call[b].length - 16 * i))
                /\ U64Xor(call[b].nonce, pi[2 * ((i + 4) % 4) + 1])
                       = U64Xor(call[b].nonce, pi[2 * (i % 4) + 1])
                /\ U64Add(call[b].nonce, U64(i + 4)) # U64Add(call[b].nonce, U64(i))

\* sz_generate_serial wrote 81 bytes from a nonce whose counter wraps around 2^64:
\* blocks 0 and 4 were written in full, with one key, and they differ.
C11_Witness ==
    \E b \in {1, 2} :
        /\ call[b] # None /\ call[b].backend = "serial" /\ call[b].length = 81
        /\ call[b].nonce = <<255, 255, 255, 255, 255, 255, 255, 255>>
        /\ C11_Written(buffers[b], 4, 81) = C11_Block(call[b].nonce, 4)
        /\ C11_Written(buffers[b], 4, 81) # C11_Written(buffers[b], 0, 81)

\* What buffer b held before the call.
C12_Prior(b) == TextBytes(content[b], 0, MaxGenLen)

\* Blocks first .. last - 1 of the schedule, in full.
RECURSIVE C12_FullBlocks(_, _, _)
C12_FullBlocks(nonce, first, last) ==
    IF first >= last THEN <<>>
    ELSE C11_Block(nonce, first) \o C12_FullBlocks(nonce, first + 1, last)

\* C12: sz_generate_serial and sz_generate_haswell write exactly `length` bytes:
\* the blocks before block length div 16 in full at offsets 0 .. 16 (length div 16) - 1,
\* the first length mod 16 bytes of that block after them, and nothing at the offsets
\* from `length` on, which hold what they held; with length 0 the buffer is as it was.
C12_OutputLength ==
    \A b \in {1, 2} :
        call[b] # None =>
            /\ Len(buffers[b]) = MaxGenLen
            /\ SubSeq(buffers[b], 1, 16 * (call[b].length \div 16))
                   = C12_FullBlocks(call[b].nonce, 0, call[b].length \div 16)
            /\ SubSeq(buffers[b], 16 * (call[b].length \div 16) + 1, call[b].length)
                   = SubSeq(C11_Block(call[b].nonce, call[b].length \div 16), 1,
                            call[b].length % 16)
            /\ SubSeq(buffers[b], call[b].length + 1, MaxGenLen)
                   = SubSeq(C12_Prior(b), call[b].length + 1, MaxGenLen)
            /\ call[b].length = 0 => buffers[b] = C12_Prior(b)

\* sz_generate_haswell wrote 81 bytes: one byte of block 5, and the byte after it is
\* the one the buffer held, which is not the byte the block would have put there;
\* the other buffer was given length 0.
C12_Witness ==
    \E b \in {1, 2} :
        /\ call[b] # None /\ call[b].backend = "haswell" /\ call[b].length = 81
        /\ buffers[b][81] = C11_Block(call[b].nonce, 5)[1]
        /\ buffers[b][82] = C12_Prior(b)[82]
        /\ buffers[b][82] # C11_Block(call[b].nonce, 5)[2]
        /\ call[3 - b] # None /\ call[3 - b].length = 0

(***************************************************************************)
(* SpecCalls: two callers, each owning one hash state, whose calls of      *)
(* init, stream and fold interleave in any order.  Both stream the bytes   *)
(* of one data set, each from where its own state stands.  `call` holds,   *)
(* per caller, the lengths it passed to stream since its last init.        *)
(***************************************************************************)
\* The most stream calls a caller makes after one init.
MaxCalls == 2

CallLens == {0, 33, 64}

\* The seeds caller h initialises its state with.
CallSeeds(h) == IF h = 1 THEN {U64(0)} ELSE Seeds

InitCalls ==
    /\ \E seed1 \in CallSeeds(1), seed2 \in CallSeeds(2) :
           states = <<sz_hash_state_init_serial(seed1), sz_hash_state_init_serial(seed2)>>
    /\ streamed = <<<<>>, <<>>>>
    /\ digest = <<None, None>>
    /\ equal = None
    /\ content = 0
    /\ call = <<<<>>, <<>>>>
    /\ returned = None
    /\ buffers = <<<<>>, <<>>>>

\* sz_hash_state_init_serial by caller h.
CallInit(h, seed) ==
    /\ states' = [states EXCEPT ![h] = sz_hash_state_init_serial(seed)]
    /\ streamed' = [streamed EXCEPT ![h] = <<>>]
    /\ digest' = [digest EXCEPT ![h] = None]
    /\ call' = [call EXCEPT ![h] = <<>>]
    /\ UNCHANGED <<equal, content, returned, buffers>>

\* A stream that would stage the bytes in one buffer shared by all the states
\* (checks that C13 depends on a call touching its own state only).
CallStreamSharedBuffer(h, text) ==
    /\ states' = [states EXCEPT
                      ![h] = sz_hash_state_stream_serial(@, text, Len(text)),
                      ![3 - h].ins = sz_hash_state_stream_serial(
                                         states[h], text, Len(text)).ins]
    /\ streamed' = [streamed EXCEPT ![h] = @ \o text]
    /\ digest' = [digest EXCEPT ![h] = None]
    /\ call' = [call EXCEPT ![h] = Append(@, Len(text))]
    /\ UNCHANGED <<equal, content, returned, buffers>>

\* sz_hash_state_stream_serial by caller h with the bytes `text`.
CallStream(h, text) ==
    /\ states' = [states EXCEPT ![h] = sz_hash_state_stream_serial(@, text, Len(text))]
    /\ streamed' = [streamed EXCEPT ![h] = @ \o text]
    /\ digest' = [digest EXCEPT ![h] = None]
    /\ call' = [call EXCEPT ![h] = Append(@, Len(text))]
    /\ UNCHANGED <<equal, content, returned, buffers>>

\* sz_hash_state_fold_serial by caller h.
CallFold(h) ==
    /\ digest' = [digest EXCEPT ![h] = sz_hash_state_fold_serial(states[h])]
    /\ UNCHANGED <<states, streamed, equal, content, call, returned, buffers>>

InitByCaller == \E h \in {1, 2} : \E seed \in CallSeeds(h) : CallInit(h, seed)

StreamByCaller ==
    \E h \in {1, 2}, n \in CallLens :
        /\ Len(call[h]) < MaxCalls
        /\ Len(streamed[h]) + n <= MaxTotal
        /\ CallStream(h, TextBytes(content, Len(streamed[h]), n))

FoldByCaller == \E h \in {1, 2} : CallFold(h)

NextCalls == InitByCaller \/ StreamByCaller \/ FoldByCaller

SpecCalls == InitCalls /\ [][NextCalls]_vars

(***************************************************************************)
(* Claims about the streaming state (SpecCalls).                           *)
(***************************************************************************)
\* The state caller h has when it makes the stream calls of lengths `lengths` alone,
\* one after the other, on `text` from offset `from`, starting in `state`.
RECURSIVE C13_Alone(_, _, _, _)
C13_Alone(state, text, from, lengths) ==
    IF lengths = <<>> THEN state
    ELSE C13_Alone(
             sz_hash_state_stream_serial(
                 state, SubSeq(text, from + 1, from + Head(lengths)), Head(lengths)),
             text, from + Head(lengths), Tail(lengths))

\* State h and the last digest of it are those of the state `alone`.
C13_Agrees(h, alone) ==
    /\ states[h] = alone
    /\ digest[h] # None => digest[h] = sz_hash_state_fold_serial(alone)

\* C13: whatever the interleaving of the two callers' init, stream and fold calls,
\* each state is the one its owner's calls alone produce, and each fold returned
\* what the fold of that state returns.
C13_DistinctStatesIndependent ==
    \A h \in {1, 2} :
        C13_Agrees(h, C13_Alone(sz_hash_state_init_serial(SeedOf(h)),
                                streamed[h], 0, call[h]))

\* Both callers have streamed and folded, with different seeds and different calls,
\* one with a pending tail of 33 bytes and the other past a block boundary.
C13_Witness ==
    /\ SeedOf(1) # SeedOf(2)
    /\ call[1] = <<33>> /\ call[2] = <<33, 64>>
    /\ digest[1] # None /\ digest[2] # None /\ digest[1] # digest[2]
    /\ states[1].ins # states[2].ins

\* The sum of the lengths passed to the stream calls.
RECURSIVE C17_Sum(_)
C17_Sum(lengths) == IF lengths = <<>> THEN 0 ELSE Head(lengths) + C17_Sum(Tail(lengths))

\* A step reduces the counter of state h only if it is its init, and a step that is
\* no init and no stream of h leaves it.
C17_OnlyInitAndStream(h) ==
    /\ states'[h].ins_length < states[h].ins_length =>
           (call'[h] = <<>> /\ states'[h].ins_length = 0)
    /\ call'[h] = call[h] => states'[h].ins_length = states[h].ins_length

\* C17: ins_length is the sum of the lengths passed to the stream calls since init;
\* no step but an init reduces it and no step but an init or a stream changes it.
C17_LengthCounter ==
    /\ [](\A h \in {1, 2} : states[h].ins_length = C17_Sum(call[h]))
    /\ [][\A h \in {1, 2} : C17_OnlyInitAndStream(h)]_vars

\* One counter stands at 97 after calls of 33 and 64 bytes and a fold, the other at 33
\* after calls of 0 and 33 bytes.
C17_Witness ==
    /\ call[1] = <<33, 64>> /\ states[1].ins_length = 97 /\ digest[1] # None
    /\ call[2] = <<0, 33>> /\ states[2].ins_length = 33

\* The state after the wide absorb step was applied to the first k blocks of 64
\* bytes of `text` in order, the buffer being cleared after each.
RECURSIVE C18_Absorbed(_, _, _)
C18_Absorbed(state, text, k) ==
    IF k = 0 THEN state
    ELSE [_sz_hash_state_update_serial(
              [C18_Absorbed(state, text, k - 1) EXCEPT
                  !.ins = SubSeq(text, 64 * (k - 1) + 1, 64 * k)])
          EXCEPT !.ins = Zeros(64)]

\* State h has absorbed the first Len(text) div 64 blocks of `text` and holds the
\* bytes after them at the start of its buffer, and zeros behind them.
C18_Scheduled(h, text) ==
    /\ states[h].aes
           = C18_Absorbed(sz_hash_state_init_serial(SeedOf(h)), text, Len(text) \div 64).aes
    /\ states[h].sum
           = C18_Absorbed(sz_hash_state_init_serial(SeedOf(h)), text, Len(text) \div 64).sum
    /\ states[h].ins
           = SubSeq(text, 64 * (Len(text) \div 64) + 1, Len(text))
             \o Zeros(64 - (Len(text) % 64))

\* C18: after N bytes were streamed since init, the absorb step has been applied to
\* the blocks [64 (k - 1), 64 k) of the concatenated input for k = 1 .. N div 64, in
\* order, the buffer was cleared after each, and the buffer holds the last N mod 64
\* bytes at its start.
C18_AbsorbSchedule == \A h \in {1, 2} : C18_Scheduled(h, streamed[h])

\* One state took 33 and 64 bytes (one absorb of a block staged by two calls, 33
\* bytes left in the buffer), the other 64 and 64 (two absorbs, nothing left).
C18_Witness ==
    /\ call[1] = <<33, 64>> /\ Len(streamed[1]) = 97
    /\ SubSeq(states[1].ins, 1, 33) = SubSeq(streamed[1], 65, 97)
    /\ call[2] = <<64, 64>> /\ states[2].ins = Zeros(64)
    /\ states[2].aes # sz_hash_state_init_serial(SeedOf(2)).aes

\* C19: two states initialised with one seed that were streamed one byte string,
\* however it was cut into chunks, are equal in every field; a stream call with
\* length 0 leaves the state as it is.
C19_PartitionIndependence ==
    /\ []((SeedOf(1) = SeedOf(2) /\ streamed[1] = streamed[2]) => states[1] = states[2])
    /\ [][\A h \in {1, 2} : call'[h] = Append(call[h], 0) => states'[h] = states[h]]_vars

\* 97 bytes were streamed as 33 + 64 into one state and as 64 + 33 into the other.
C19_Witness ==
    /\ SeedOf(1) = SeedOf(2)
    /\ call[1] = <<33, 64>> /\ call[2] = <<64, 33>>
    /\ streamed[1] = streamed[2]
    /\ states[1] = states[2]

(***************************************************************************)
(* SpecTotal: one caller whose stream and generate calls run one loop      *)
(* iteration at a time.  `call` is the running call: its remaining length, *)
(* the length it was passed and the iterations made so far; `returned` is  *)
(* the call that returned last.  A running call keeps running.             *)
(***************************************************************************)
TotalLens == {0, 63, 66}
TotalGenLens == {0, 17, 32}

InitTotal ==
    /\ states = <<sz_hash_state_init_serial(U64(0)), sz_hash_state_init_serial(U64(0))>>
    /\ streamed = <<<<>>, <<>>>>
    /\ digest = <<None, None>>
    /\ equal = None
    /\ content = 0
    /\ call = None
    /\ returned = None
    /\ buffers = <<TextBytes(2, 0, MaxGenLen), <<>>>>

\* The call of sz_hash_state_stream_serial(&states[1], text, n).
EnterStream ==
    /\ call = None
    /\ \E n \in TotalLens :
           /\ Len(streamed[1]) + n <= MaxTotal
           /\ call' = [op |-> "stream", text |-> TextBytes(content, Len(streamed[1]), n),
                       length |-> n, passed |-> n, iterations |-> 0]
           /\ streamed' = [streamed EXCEPT ![1] =
                               @ \o TextBytes(content, Len(streamed[1]), n)]
    /\ UNCHANGED <<states, digest, equal, content, returned, buffers>>

\* The loop control of one iteration of `while (length)`: what the iteration does
\* to the remaining text and length.
StreamAdvance ==
    /\ call # None /\ call.op = "stream" /\ call.length > 0
    /\ call' = [call EXCEPT
                    !.text = SubSeq(@, StreamToCopy(states[1], call.length) + 1, Len(@)),
                    !.length = @ - StreamToCopy(states[1], call.length),
                    !.iterations = @ + 1]

\* One iteration of `while (length)` of sz_hash_state_stream_serial.
StreamIteration ==
    /\ StreamAdvance
    /\ states' = [states EXCEPT ![1] = StreamSerialIteration(@, call.text, call.length)]
    /\ UNCHANGED <<streamed, digest, equal, content, returned, buffers>>

\* The call of sz_generate_serial(buffers[1], length, nonce).
EnterGenerate ==
    /\ call = None
    /\ \E nonce \in Nonces, length \in TotalGenLens :
           call' = [op |-> "generate", nonce |-> nonce, length |-> length,
                    passed |-> length, iterations |-> 0]
    /\ UNCHANGED <<states, streamed, digest, equal, content, returned, buffers>>

\* The loop control of one iteration of the outer loop of sz_generate_serial.
GenerateAdvance ==
    /\ call # None /\ call.op = "generate" /\ call.length > 0
    /\ call' = [call EXCEPT !.length = @ - Min(16, @), !.iterations = @ + 1]

\* One iteration of the outer loop of sz_generate_serial: lane_index is the number
\* of iterations made and the bytes written are those no longer left.
GenerateBlock ==
    /\ GenerateAdvance
    /\ buffers' = [buffers EXCEPT ![1] =
                       GenerateIteration(@, call.passed - call.length, call.length,
                                         call.nonce, call.iterations)]
    /\ UNCHANGED <<states, streamed, digest, equal, content, returned>>

\* The loop condition fails and the call returns.
Return ==
    /\ call # None /\ call.length = 0
    /\ returned' = [op |-> call.op, passed |-> call.passed, iterations |-> call.iterations]
    /\ call' = None
    /\ UNCHANGED <<states, streamed, digest, equal, content, buffers>>

NextTotal == EnterStream \/ StreamIteration \/ EnterGenerate \/ GenerateBlock \/ Return

\* A running call keeps running: an iteration is enabled exactly when its loop
\* control is, and it is the only step that changes `call` that way.
SpecTotal ==
    /\ InitTotal /\ [][NextTotal]_vars
    /\ WF_call(StreamAdvance) /\ WF_call(GenerateAdvance) /\ WF_call(Return)

\* The least number of blocks of `size` bytes that hold n bytes.
C14_Ceil(n, size) == (n + size - 1) \div size

\* The iterations a call has made are within its bound, and a generate call that
\* has nothing left has made exactly ceil(length / 16).
C14_Bounded(c, left) ==
    /\ c.op = "stream" => c.iterations <= C14_Ceil(c.passed, 64) + 1
    /\ c.op = "generate" => c.iterations <= C14_Ceil(c.passed, 16)
    /\ (c.op = "generate" /\ left = 0) => c.iterations = C14_Ceil(c.passed, 16)

\* An iteration of the stream loop consumes at least 1 and at most
\* 64 - (ins_length mod 64) bytes of what is left.
C14_Consumes ==
    (call # None /\ call' # None /\ call.op = "stream"
     /\ call'.iterations = call.iterations + 1) =>
        /\ call.length - call'.length >= 1
        /\ call.length - call'.length <= 64 - (states[1].ins_length % 64)

BackendLens == {0, 31, 33, 64, 70}

BackendsInitialised(seed) ==
    <<sz_hash_state_init_serial(seed), sz_hash_state_init_haswell(seed),
      sz_hash_state_init_skylake(seed), sz_hash_state_init_ice(seed)>>

InitBackends ==
    /\ \E seed \in Seeds : states = BackendsInitialised(seed)
    /\ streamed = <<<<>>, <<>>, <<>>, <<>>>>
    /\ digest = <<None, None, None, None>>
    /\ equal = None
    /\ content \in Contents
    /\ call = None
    /\ returned = None
    /\ buffers = <<<<>>, <<>>>>

\* sz_hash_state_init_* on the four states.
ReinitBackends ==
    /\ \E seed \in Seeds : states' = BackendsInitialised(seed)
    /\ streamed' = <<<<>>, <<>>, <<>>, <<>>>>
    /\ digest' = <<None, None, None, None>>
    /\ UNCHANGED <<equal, content, call, returned, buffers>>

\* The four states after sz_hash_state_stream_* with the bytes `text`.
BackendsStreamed(text) ==
    <<sz_hash_state_stream_serial(states[1], text, Len(text)),
      sz_hash_state_stream_haswell(states[2], text, Len(text)),
      sz_hash_state_stream_skylake(states[3], text, Len(text)),
      sz_hash_state_stream_ice(states[4], text, Len(text))>>

StreamBackends ==
    \E n \in BackendLens :
        /\ Len(streamed[1]) + n <= MaxTotal
        /\ states' = BackendsStreamed(TextBytes(content, Len(streamed[1]), n))
        /\ streamed' = [b \in 1 .. 4 |->
                            streamed[b] \o TextBytes(content, Len(streamed[1]), n)]
        /\ digest' = <<None, None, None, None>>
        /\ UNCHANGED <<equal, content, call, returned, buffers>>

\* sz_hash_state_fold_* on the four states.
FoldBackends ==
    /\ digest' = <<sz_hash_state_fold_serial(states[1]), sz_hash_state_fold_haswell(states[2]),
                   sz_hash_state_fold_skylake(states[3]), sz_hash_state_fold_ice(states[4])>>
    /\ UNCHANGED <<states, streamed, equal, content, call, returned, buffers>>

NextBackends == ReinitBackends \/ StreamBackends \/ FoldBackends

SpecBackends == InitBackends /\ [][NextBackends]_vars

\* The bytes of state.ins at the indices [ins_length mod 64, 64) are all zero.
C16_TailZero(state) ==
    SubSeq(state.ins, (state.ins_length % 64) + 1, 64) = Zeros(64 - (state.ins_length % 64))

\* C16: after init and after every stream call, on every backend, the bytes of ins
\* at the indices [ins_length mod 64, 64) are all zero.
C16_InputBufferInvariant == \A b \in 1 .. 4 : C16_TailZero(states[b])

\* C20: the Haswell stream leaves aes, sum, key and ins_length as the serial stream
\* does on the same chunks, and the fold after it returns the same digest.
C20_DirectEqualsStaged ==
    /\ states[2].aes = states[1].aes
    /\ states[2].sum = states[1].sum
    /\ states[2].key = states[1].key
    /\ states[2].ins_length = states[1].ins_length
    /\ digest[2] = digest[1]

\* 70 bytes and then 33 more were streamed, the first 64 absorbed directly and the
\* rest staged; the Haswell buffer holds bytes of the absorbed block behind the 39
\* staged ones, which the serial buffer does not, and the two folds agree.
C20_Witness ==
    /\ Len(streamed[2]) = 103
    /\ states[2].ins_length = 103
    /\ SubSeq(states[2].ins, 1, 39) = SubSeq(states[1].ins, 1, 39)
    /\ states[2].ins # states[1].ins
    /\ digest[2] # None /\ digest[1] = digest[2]
(***************************************************************************)
(* SpecRoute: sz_hash_serial run one step at a time on one text and one    *)
(* seed.  `call` holds the arguments and the locals of the call: pc is the *)
(* position in the function, state the minimal or the wide state of the    *)
(* branch taken, absorbed the vectors handed to the update functions, in   *)
(* order.  `returned` is the value returned with the length given to the   *)
(* finalize function.                                                      *)
(***************************************************************************)
\* The longest text of SpecRoute.
MaxRouteLen == 130

\* The number of data vectors the branch of sz_hash_serial for `length` declares
\* and updates the minimal state with; length <= 64.
HashSerialLoadsStrict(length) ==
    IF length < 16 THEN 1 ELSE IF length < 32 THEN 2 ELSE IF length < 48 THEN 3 ELSE 4

HashSerialLoads(length) ==
    IF length <= 16 THEN 1 ELSE IF length <= 32 THEN 2 ELSE IF length <= 48 THEN 3 ELSE 4

\* As HashSerialDataVec, the last vector left as it was loaded.
HashSerialDataVecUnshifted(start, length, i) ==
    IF length <= 16
    THEN SubSeq(start, 1, length) \o Zeros(16 - length)
    ELSE IF i + 1 < HashSerialLoads(length)
    THEN Load128(start, 16 * i)
    ELSE Load128(start, length - 16)

\* data<i>_vec of the branch of sz_hash_serial for `length` as it is handed to the
\* update; length <= 64 and 0 <= i < HashSerialLoads(length).
HashSerialDataVec(start, length, i) ==
    IF length <= 16
    THEN SubSeq(start, 1, length) \o Zeros(16 - length)
    ELSE IF i + 1 < HashSerialLoads(length)
    THEN Load128(start, 16 * i)
    ELSE _sz_hash_shift_in_register_serial(
             Load128(start, length - 16), 16 * HashSerialLoads(length) - length)

InitRoute ==
    /\ HashIdle
    /\ buffers = <<<<>>, <<>>>>
    /\ \E n \in 0 .. MaxRouteLen, seed \in Seeds :
           call = [start |-> TextBytes(0, 0, n), length |-> n, seed |-> seed,
                   pc |-> "enter", state |-> None, absorbed |-> <<>>]
    /\ returned = None

\* The branch on the length and the init call of the branch taken.
HashEnter ==
    /\ call.pc = "enter"
    /\ call' = IF call.length <= 64
               THEN [call EXCEPT !.pc = "minimal",
                                 !.state = _sz_hash_minimal_init_serial(call.seed)]
               ELSE [call EXCEPT !.pc = "wide",
                                 !.state = sz_hash_state_init_serial(call.seed)]
    /\ UNCHANGED <<states, streamed, digest, equal, content, buffers, returned>>

\* One _sz_hash_minimal_update_serial call of a branch of length <= 64.
HashMinimalUpdate ==
    /\ call.pc = "minimal"
    /\ Len(call.absorbed) < HashSerialLoads(call.length)
    /\ call' = [call EXCEPT
           !.state = _sz_hash_minimal_update_serial(
                         @, HashSerialDataVec(call.start, call.length, Len(call.absorbed))),
           !.absorbed = Append(@, HashSerialDataVec(call.start, call.length, Len(@)))]
    /\ UNCHANGED <<states, streamed, digest, equal, content, buffers, returned>>

\* The return statement of a branch of length <= 64.
HashMinimalFinalize ==
    /\ call.pc = "minimal"
    /\ Len(call.absorbed) = HashSerialLoads(call.length)
    /\ call' = [call EXCEPT !.pc = "done"]
    /\ returned' = [value |-> _sz_hash_minimal_finalize_serial(call.state, call.length),
                    length |-> call.length]
    /\ UNCHANGED <<states, streamed, digest, equal, content, buffers>>

\* One iteration of the loop over the full blocks of the last branch.
HashWideBlock ==
    /\ call.pc = "wide"
    /\ call.state.ins_length + 64 <= call.length
    /\ call' = [call EXCEPT
           !.state = [_sz_hash_state_update_serial(
                          [@ EXCEPT !.ins = SubSeq(call.start, call.state.ins_length + 1,
                                                   call.state.ins_length + 64)])
                      EXCEPT !.ins_length = @ + 64],
           !.absorbed = Append(@, SubSeq(call.start, call.state.ins_length + 1,
                                         call.state.ins_length + 64))]
    /\ UNCHANGED <<states, streamed, digest, equal, content, buffers, returned>>

\* The `if (state.ins_length < length)` statement after the loop.
HashWideTail ==
    /\ call.pc = "wide"
    /\ ~(call.state.ins_length + 64 <= call.length)
    /\ call' = IF call.state.ins_length < call.length
               THEN [call EXCEPT
                        !.pc = "finalize",
                        !.state = HashSerialTail(@, call.start, call.length),
                        !.absorbed = Append(@, HashSerialTail(call.state, call.start,
                                                              call.length).ins)]
               ELSE [call EXCEPT !.pc = "finalize"]
    /\ UNCHANGED <<states, streamed, digest, equal, content, buffers, returned>>

\* The return statement of the last branch.
HashWideFinalize ==
    /\ call.pc = "finalize"
    /\ call' = [call EXCEPT !.pc = "done"]
    /\ returned' = [value |-> _sz_hash_state_finalize_serial(call.state),
                    length |-> call.state.ins_length]
    /\ UNCHANGED <<states, streamed, digest, equal, content, buffers>>

NextRoute ==
    \/ HashEnter
    \/ HashMinimalUpdate
    \/ HashMinimalFinalize
    \/ HashWideBlock
    \/ HashWideTail
    \/ HashWideFinalize

SpecRoute == InitRoute /\ [][NextRoute]_vars

\* Bytes [from, to) of the text of the call, zero-padded to `width` bytes.
C21_Padded(from, to, width) ==
    SubSeq(call.start, from + 1, to) \o Zeros(width - (to - from))

\* The absorbs of a text of more than 64 bytes: the full blocks in order, then the
\* zero-padded tail if there is one.
C21_WideRoute ==
    /\ Len(call.absorbed) = (call.length + 63) \div 64
    /\ \A i \in 1 .. Len(call.absorbed) :
           call.absorbed[i] = C21_Padded(64 * (i - 1), Min(64 * i, call.length), 64)

\* C21: sz_hash_serial applies 1, 2, 3 or 4 minimal updates for lengths 0..16,
\* 17..32, 33..48, 49..64 and finalizes the minimal state with the length; for a
\* length above 64 it absorbs the floor(length/64) full blocks in order, then the
\* zero-padded tail if and only if length mod 64 # 0, and finalizes with
\* ins_length = length.
C21_OneShotRouting ==
    call.pc = "done" =>
        /\ returned.length = call.length
        /\ returned.value = sz_hash_serial(call.start, call.length, call.seed)
        /\ call.length <= 16 => Len(call.absorbed) = 1
        /\ (16 < call.length /\ call.length <= 64) =>
               Len(call.absorbed) = (call.length + 15) \div 16
        /\ call.length <= 64 => Len(call.state.aes) = 16
        /\ call.length > 64 => Len(call.state.aes) = 64 /\ C21_WideRoute

\* A text of two full blocks and a tail of one byte was hashed with three absorbs.
C21_Witness ==
    /\ call.pc = "done" /\ call.length = 129
    /\ Len(call.absorbed) = 3
    /\ call.absorbed[3] = <<call.start[129]>> \o Zeros(63)
    /\ returned.length = 129

\* data<i>_vec of the branch of sz_hash_skylake for `length`; length <= 64 and i
\* below the number of vectors of the branch.
HashSkylakeDataVec(start, length, i) ==
    IF length <= 16
    THEN _mm_maskz_loadu_epi8(_sz_u16_mask_until(length), start, 0)
    ELSE IF \/ length <= 32 /\ i = 1
            \/ 32 < length /\ length <= 48 /\ i = 2
            \/ 48 < length /\ i = 3
    THEN _mm_maskz_loadu_epi8(_sz_u16_mask_until(length - 16 * i), start, 16 * i)
    ELSE _mm_lddqu_si128(start, 16 * i)

\* The absorbed blocks that hold byte `index` of the text at offset index mod 16.
C22_Holders(index) ==
    {i \in 1 .. Len(call.absorbed) :
        /\ i = (index \div 16) + 1
        /\ call.absorbed[i][(index % 16) + 1] = call.start[index + 1]}

\* The number of bytes of the absorbed blocks that are not zero.
C22_NonZero ==
    Cardinality({p \in (1 .. Len(call.absorbed)) \X (1 .. 16) : call.absorbed[p[1]][p[2]] # 0})

\* C22: for 16 < length <= 64 every input byte is in exactly one block handed to the
\* minimal update, at offset (index mod 16) of block floor(index/16), the last block
\* holds the bytes from 16(k-1) on and zeros above them, and each block equals the
\* vector sz_hash_skylake loads for it.
C22_TailShift ==
    (call.pc = "done" /\ 16 < call.length /\ call.length <= 64) =>
        /\ \A index \in 0 .. call.length - 1 : Cardinality(C22_Holders(index)) = 1
        /\ C22_NonZero = call.length
        /\ \A i \in 1 .. Len(call.absorbed) :
               call.absorbed[i] = HashSkylakeDataVec(call.start, call.length, i - 1)

\* A text of 37 bytes was hashed: the third vector was loaded from bytes 21..36 and
\* shifted by 11 to hold bytes 32..36.
C22_Witness ==
    /\ call.pc = "done" /\ call.length = 37
    /\ Len(call.absorbed) = 3
    /\ Load128(call.start, 21) # call.absorbed[3]
    /\ call.absorbed[3] = SubSeq(call.start, 33, 37) \o Zeros(11)
(***************************************************************************)
(* SpecShift: one call of _sz_hash_shift_in_register_serial on a vector    *)
(* and a byte count of 0..15, the counts its callers pass.  `call` holds   *)
(* the arguments, `returned` the vector after the call with the bit counts *)
(* of the 64-bit shifts the call evaluated.                                *)
(***************************************************************************)
ShiftVecs ==
    {TextBytes(0, 0, 16), TextBytes(0, 16, 16), TextBytes(0, 130, 16), TextBytes(2, 0, 16)}

\* The bit counts of the shifts of 64-bit words the call evaluates.
ShiftInRegisterCounts(shift_bytes) ==
    IF shift_bytes >= 8 THEN {(shift_bytes - 8) * 8}
    ELSE IF shift_bytes # 0 THEN {shift_bytes * 8, (8 - shift_bytes) * 8}
    ELSE {}

InitShift ==
    /\ HashIdle
    /\ buffers = <<<<>>, <<>>>>
    /\ \E vec \in ShiftVecs, shift_bytes \in 0 .. 15 :
           call = [vec |-> vec, shift_bytes |-> shift_bytes]
    /\ returned = None

ShiftInRegister ==
    /\ returned = None
    /\ returned' = [vec |-> _sz_hash_shift_in_register_serial(call.vec, call.shift_bytes),
                    counts |-> ShiftInRegisterCounts(call.shift_bytes)]
    /\ UNCHANGED <<states, streamed, digest, equal, content, buffers, call>>

SpecShift == InitShift /\ [][ShiftInRegister]_vars

\* C23: for every byte count k of 0..15 the call leaves the 128-bit little-endian
\* value shifted right by 8k bits: byte i of the result is byte i + k of the vector,
\* or zero from byte 16 - k on; k = 0 leaves the vector unchanged, k = 8 moves the high
\* word into the low word, and every 64-bit shift evaluated is by less than 64 bits.
C23_LogicalRightShift ==
    returned # None =>
        /\ returned.vec = SubSeq(call.vec, call.shift_bytes + 1, 16) \o Zeros(call.shift_bytes)
        /\ call.shift_bytes = 0 => returned.vec = call.vec
        /\ call.shift_bytes = 8 => returned.vec = Hi64(call.vec) \o Zeros(8)
        /\ \A count \in returned.counts : 0 <= count /\ count < 64

\* A vector was shifted by three bytes: bytes 5..7 of the result came from the
\* high word.
C23_Witness ==
    /\ returned # None /\ call.shift_bytes = 3
    /\ SubSeq(returned.vec, 6, 8) = SubSeq(Hi64(call.vec), 1, 3)
    /\ returned.vec[6] # 0
    /\ returned.counts = {24, 40}
(***************************************************************************)
(* SpecTails: the two callers of SpecEq with the same seed, which stream   *)
(* half blocks and then tail pieces from data sets chosen anew for every   *)
(* piece, each folding its state at any time.                              *)
(***************************************************************************)
InitTails ==
    /\ \E seed \in Seeds :
           states = <<sz_hash_state_init_serial(seed), sz_hash_state_init_serial(seed)>>
    /\ streamed = <<<<>>, <<>>>>
    /\ digest = <<None, None>>
    /\ equal = None
    /\ content = 0
    /\ call = None /\ returned = None /\ buffers = <<<<>>, <<>>>>

FoldEither == \E h \in {1, 2} : StateFold(h)

NextTails == StreamHalfBlock \/ StreamTailPiece \/ FoldEither

SpecTails == InitTails /\ [][NextTails]_vars

\* State h was folded after more than 64 bytes, the last block of them not full.
C24_FoldedWithTail(h) ==
    /\ digest[h] # None
    /\ Len(streamed[h]) > 64
    /\ Len(streamed[h]) % 64 # 0

\* C24 (as stated): a fold after more than 64 bytes with a pending tail returns the
\* finalize reduction of the state that has absorbed the zero-padded tail held in
\* ins, so the folds of two streams with the same seed and length that differ only
\* in the pending tail bytes are finalized from different aes and sum, and the
\* values returned differ.
C24_TailTakesPart ==
    /\ \A h \in {1, 2} :
           C24_FoldedWithTail(h) =>
               digest[h] = _sz_hash_state_finalize_serial(_sz_hash_state_update_serial(states[h]))
    /\ (/\ C24_FoldedWithTail(1) /\ C24_FoldedWithTail(2)
        /\ SeedOf(1) = SeedOf(2)
        /\ Len(streamed[1]) = Len(streamed[2])
        /\ C4_Blocks(streamed[1]) = C4_Blocks(streamed[2])
        /\ streamed[1] # streamed[2])
           => digest[1] # digest[2]
(***************************************************************************)
(* The state class of the one-shot hash and of the fold (Spec).            *)
(***************************************************************************)
\* The state the branch of sz_hash_serial for `length` declares.
HashSerialStateClass(length) == IF length <= 64 THEN "minimal" ELSE "wide"

\* The state sz_hash_state_fold_serial finalizes: the wide one it is given, or the
\* minimal one it switches back to.
FoldStateClass(state) == IF state.ins_length >= 64 THEN "wide" ELSE "minimal"

\* The number of minimal updates of the branch of sz_hash_state_fold_serial for
\* `length`; length < 64.
FoldUpdates(length) ==
    IF length <= 16 THEN 1 ELSE IF length <= 32 THEN 2 ELSE IF length <= 48 THEN 3 ELSE 4

\* C25 (as stated): for every total length the fold finalizes the class of state the
\* one-shot hash uses for that length, with the same number of minimal updates when
\* the class is the minimal one, and at 64 bytes the fold returns what the one-shot
\* hash returns.
C25_SameStateClass ==
    digest[1] # None =>
        /\ FoldStateClass(states[1]) = HashSerialStateClass(Len(streamed[1]))
        /\ FoldStateClass(states[1]) = "minimal" =>
               FoldUpdates(states[1].ins_length) = HashSerialLoads(Len(streamed[1]))
        /\ Len(streamed[1]) = 64 =>
               digest[1] = sz_hash_serial(streamed[1], 64, SeedOf(1))
(***************************************************************************)
(* SpecKernels: the aligned branches of the checksum kernels run one loop  *)
(* iteration at a time: the branch of sz_bytesum_haswell for more than     *)
(* 1 MiB, and the branches of sz_bytesum_skylake and sz_bytesum_ice for    *)
(* more than 64 bytes, below and from 1 MiB.  `call` holds the arguments   *)
(* and the locals of the call:                                             *)
(*   kernel, length - the function called and its length argument          *)
(*   origin         - the text argument; text is the moving pointer        *)
(*   pc             - "enter" before the branch, "loop" in its main loop,  *)
(*                    "done" after it                                      *)
(*   head_length, tail_length, body_length - the locals of these names; a  *)
(*                    negative body_length stands for a wrapped sz_size_t  *)
(*   head, tail     - the addresses <<from, to>> the head and the tail     *)
(*                    were read at, None before they are                    *)
(*   forward, reverse - the addresses of the last register loaded through  *)
(*                    text and of the last loaded from the far end         *)
(*   loads          - the number of registers loaded from the body         *)
(*   sums_vec, sums_reversed_vec - the two accumulators, kept for the      *)
(*                    branch of sz_bytesum_ice below 1 MiB: 8 lanes of 64  *)
(*                    bits and 16 lanes of 32 bits                         *)
(* `returned` is the value returned by that branch of sz_bytesum_ice.      *)
(***************************************************************************)
\* The longest of the short texts of SpecKernels.
MaxKernelLen == 200

\* The width in bytes of the registers of a kernel.
RegisterWidth(kernel) == IF kernel = "haswell" THEN 32 ELSE 64

\* is_huge
KernelIsHuge(kernel, length) ==
    IF kernel = "haswell" THEN length > 1 * 1024 * 1024 ELSE length >= 1 * 1024 * 1024

\* A tail length that would be taken from the length alone.
KernelTailLengthOfLength(kernel, text, length) == length % RegisterWidth(kernel)

KernelHeadLength(kernel, text) ==
    (RegisterWidth(kernel) - (text.addr % RegisterWidth(kernel))) % RegisterWidth(kernel)

KernelTailLength(kernel, text, length) == (text.addr + length) % RegisterWidth(kernel)

\* Whether the main loop of the branch loads from both ends of the body: every
\* aligned branch but the one of sz_bytesum_skylake below 1 MiB.
KernelBidirectional(c) == ~(c.kernel = "skylake" /\ ~KernelIsHuge(c.kernel, c.length))

\* A loop that would go on while one register is left.
KernelLoopGuardOneLeft(c) == c.body_length >= RegisterWidth(c.kernel)

\* The condition of the main loop.
KernelLoopGuard(c) ==
    IF KernelBidirectional(c)
    THEN c.body_length >= 2 * RegisterWidth(c.kernel)
    ELSE c.body_length >= RegisterWidth(c.kernel)

\* Whether the model keeps the accumulators of the call.
KernelSums(c) == c.kernel = "ice" /\ ~KernelIsHuge(c.kernel, c.length)

\* _mm512_load_si512((__m512i *)text)
TextLoad512(text) == [i \in 1 .. 64 |-> ReadU8(text, i - 1)]

\* _mm512_maskz_loadu_epi8(_sz_u64_mask_until(n), text)
TextMaskzLoad512(n, text) == [i \in 1 .. 64 |-> IF i - 1 < n THEN ReadU8(text, i - 1) ELSE 0]

\* _mm512_sad_epu8(a, zeros): 8 lanes, each the sum of 8 bytes.
_mm512_sad_epu8(a) ==
    [j \in 1 .. 8 |-> a[8 * j - 7] + a[8 * j - 6] + a[8 * j - 5] + a[8 * j - 4]
                      + a[8 * j - 3] + a[8 * j - 2] + a[8 * j - 1] + a[8 * j]]

\* _mm512_add_epi64; the lanes stay below 2^31 in this model.
_mm512_add_epi64(a, b) == [j \in 1 .. 8 |-> a[j] + b[j]]

\* A multiply-add that would saturate at 16 bits.
DpbusdsSaturating16(src, a) ==
    [j \in 1 .. 16 |->
        IF src[j] > 32767 - (a[4 * j - 3] + a[4 * j - 2] + a[4 * j - 1] + a[4 * j])
        THEN 32767
        ELSE src[j] + (a[4 * j - 3] + a[4 * j - 2] + a[4 * j - 1] + a[4 * j])]

\* _mm512_dpbusds_epi32(src, a, ones): 16 lanes of 32 bits, to each the sum of 4
\* unsigned bytes of a is added with signed saturation; src is not negative.
_mm512_dpbusds_epi32(src, a) ==
    [j \in 1 .. 16 |->
        IF src[j] > 2147483647 - (a[4 * j - 3] + a[4 * j - 2] + a[4 * j - 1] + a[4 * j])
        THEN 2147483647
        ELSE src[j] + (a[4 * j - 3] + a[4 * j - 2] + a[4 * j - 1] + a[4 * j])]

_mm512_reduce_add_epi64(a) == a[1] + a[2] + a[3] + a[4] + a[5] + a[6] + a[7] + a[8]

\* a + b in an int of 32 bits, which wraps; b is not negative.
AddInt32(a, b) ==
    IF a >= 0 /\ a > 2147483647 - b
    THEN (a - 2147483647 - 1) + (b - 2147483647 - 1)
    ELSE a + b

\* The sum of lanes 1 .. n of a, as an int of 32 bits.
RECURSIVE ReduceAddInt32(_, _)
ReduceAddInt32(a, n) == IF n = 0 THEN 0 ELSE AddInt32(ReduceAddInt32(a, n - 1), a[n])

_mm512_reduce_add_epi32(a) == ReduceAddInt32(a, 16)

\* Every alignment and every short length of the two AVX-512 kernels; the longest
\* text below 1 MiB, all bytes 0xFF, at two alignments; and for each kernel two
\* texts of 1 MiB and more, one with an even and one with an odd number of registers
\* in its body.
KernelInputs ==
    {[kernel |-> k, text |-> [data |-> 0, addr |-> a], length |-> n] :
         k \in {"skylake", "ice"}, a \in 0 .. 63, n \in 65 .. MaxKernelLen}
    \cup {[kernel |-> "ice", text |-> [data |-> 2, addr |-> a], length |-> 1024 * 1024 - 1] :
              a \in {0, 1}}
    \cup {[kernel |-> k, text |-> [data |-> 2, addr |-> 0], length |-> 1024 * 1024] :
              k \in {"skylake", "ice"}}
    \cup {[kernel |-> k, text |-> [data |-> 2, addr |-> 1], length |-> 1024 * 1024 + 129] :
              k \in {"skylake", "ice"}}
    \cup {[kernel |-> "haswell", text |-> [data |-> 2, addr |-> 1], length |-> 1024 * 1024 + 1],
          [kernel |-> "haswell", text |-> [data |-> 2, addr |-> 0], length |-> 1024 * 1024 + 69]}

InitKernels ==
    /\ HashIdle
    /\ buffers = <<<<>>, <<>>>>
    /\ \E input \in KernelInputs :
           call = [kernel |-> input.kernel, origin |-> input.text, text |-> input.text,
                   length |-> input.length, pc |-> "enter",
                   head_length |-> 0, tail_length |-> 0, body_length |-> 0,
                   head |-> None, tail |-> None, forward |-> None, reverse |-> None,
                   loads |-> 0, sums_vec |-> None, sums_reversed_vec |-> None]
    /\ returned = None

\* The tail the branch reads before its main loop: sz_bytesum_haswell adds its bytes,
\* the branches that load from both ends load it with a mask; the branch of
\* sz_bytesum_skylake below 1 MiB loads it after the loop.
KernelTailAtEntry(c, head_length, tail_length) ==
    IF c.kernel = "haswell"
    THEN <<c.text.addr + c.length - tail_length, c.text.addr + c.length>>
    ELSE IF KernelBidirectional(c)
    THEN <<c.text.addr + head_length + (c.length - head_length - tail_length),
           c.text.addr + head_length + (c.length - head_length - tail_length) + tail_length>>
    ELSE None

\* The locals after the head and the tail are taken care of and text is advanced
\* past the head.
KernelEntered(c, head_length, tail_length) ==
    [c EXCEPT
        !.pc = "loop",
        !.head_length = head_length,
        !.tail_length = tail_length,
        !.body_length = c.length - head_length - tail_length,
        !.head = <<c.text.addr, c.text.addr + head_length>>,
        !.tail = KernelTailAtEntry(c, head_length, tail_length),
        !.text = PtrAdd(c.text, head_length),
        !.sums_vec =
            IF KernelSums(c)
            THEN _mm512_sad_epu8(TextMaskzLoad512(head_length, c.text))
            ELSE None,
        !.sums_reversed_vec =
            IF KernelSums(c)
            THEN _mm512_dpbusds_epi32(
                     [j \in 1 .. 16 |-> 0],
                     TextMaskzLoad512(tail_length,
                         PtrAdd(c.text, head_length + (c.length - head_length - tail_length))))
            ELSE None]

KernelEnter ==
    /\ call.pc = "enter"
    /\ call' = KernelEntered(call, KernelHeadLength(call.kernel, call.text),
                             KernelTailLength(call.kernel, call.text, call.length))
    /\ UNCHANGED <<states, streamed, digest, equal, content, buffers, returned>>

\* One iteration of the main loop.
KernelLoop ==
    /\ call.pc = "loop"
    /\ KernelLoopGuard(call)
    /\ call' =
           IF KernelBidirectional(call)
           THEN [call EXCEPT
                    !.forward = <<call.text.addr, call.text.addr + RegisterWidth(call.kernel)>>,
                    !.reverse = <<call.text.addr + call.body_length - RegisterWidth(call.kernel),
                                  call.text.addr + call.body_length>>,
                    !.loads = @ + 2,
                    !.text = PtrAdd(@, RegisterWidth(call.kernel)),
                    !.body_length = @ - 2 * RegisterWidth(call.kernel),
                    !.sums_reversed_vec =
                        IF KernelSums(call)
                        THEN _mm512_dpbusds_epi32(
                                 @, TextLoad512(PtrAdd(call.text, call.body_length - 64)))
                        ELSE @,
                    !.sums_vec =
                        IF KernelSums(call)
                        THEN _mm512_add_epi64(@, _mm512_sad_epu8(TextLoad512(call.text)))
                        ELSE @]
           ELSE [call EXCEPT
                    !.forward = <<call.text.addr, call.text.addr + RegisterWidth(call.kernel)>>,
                    !.loads = @ + 1,
                    !.text = PtrAdd(@, RegisterWidth(call.kernel)),
                    !.body_length = @ - RegisterWidth(call.kernel)]
    /\ UNCHANGED <<states, streamed, digest, equal, content, buffers, returned>>

\* The statements after the main loop: the register that may be left between the two
\* pointers, or the tail of the branch of sz_bytesum_skylake below 1 MiB, and the
\* return.
KernelLast ==
    /\ call.pc = "loop"
    /\ ~KernelLoopGuard(call)
    /\ call' =
           IF ~KernelBidirectional(call)
           THEN [call EXCEPT
                    !.pc = "done",
                    !.tail = <<call.text.addr, call.text.addr + call.tail_length>>]
           ELSE IF call.body_length >= RegisterWidth(call.kernel)
           THEN [call EXCEPT
                    !.pc = "done",
                    !.forward = <<call.text.addr, call.text.addr + RegisterWidth(call.kernel)>>,
                    !.loads = @ + 1,
                    !.text = IF call.kernel = "haswell" THEN PtrAdd(@, 32) ELSE @,
                    !.sums_vec =
                        IF KernelSums(call)
                        THEN _mm512_add_epi64(@, _mm512_sad_epu8(TextLoad512(call.text)))
                        ELSE @]
           ELSE [call EXCEPT !.pc = "done"]
    /\ returned' =
           IF KernelSums(call)
           THEN U64Add(U64OfInt(_mm512_reduce_add_epi64(call'.sums_vec)),
                       U64OfInt(_mm512_reduce_add_epi32(call'.sums_reversed_vec)))
           ELSE None
    /\ UNCHANGED <<states, streamed, digest, equal, content, buffers>>

NextKernels == KernelEnter \/ KernelLoop \/ KernelLast

SpecKernels == InitKernels /\ [][NextKernels]_vars

\* The addresses of the first byte of the body and of the first byte after it.
C26_BodyStart(c) == c.origin.addr + c.head_length
C26_BodyEnd(c) == c.origin.addr + c.length - c.tail_length

\* The end of the part of the body loaded through the forward pointer so far, and
\* the start of the part loaded through the reverse one.
C26_ForwardFrontier(c) == IF c.forward = None THEN C26_BodyStart(c) ELSE c.forward[2]
C26_ReverseFrontier(c) == IF c.reverse = None THEN C26_BodyEnd(c) ELSE c.reverse[1]

\* A step of a branch for 1 MiB and more loads the register that starts where the
\* forward part ends and, in the main loop, the one that ends where the reverse part
\* starts, and leaves the forward part below the reverse one.
C26_Step ==
    (call.pc = "loop" /\ KernelIsHuge(call.kernel, call.length)) =>
        /\ call'.loads \in {call.loads, call.loads + 1, call.loads + 2}
        /\ call'.loads > call.loads =>
               call'.forward = <<C26_ForwardFrontier(call),
                                 C26_ForwardFrontier(call) + RegisterWidth(call.kernel)>>
        /\ call'.loads = call.loads => call'.forward = call.forward
        /\ call'.loads = call.loads + 2 =>
               call'.reverse = <<C26_ReverseFrontier(call) - RegisterWidth(call.kernel),
                                 C26_ReverseFrontier(call)>>
        /\ call'.loads < call.loads + 2 => call'.reverse = call.reverse
        /\ C26_ForwardFrontier(call') <= C26_ReverseFrontier(call')

\* When such a branch is done the two parts meet, the registers loaded make up the
\* body, and the head and the tail read are the bytes before and after the body.
C26_Covered ==
    (call.pc = "done" /\ KernelIsHuge(call.kernel, call.length)) =>
        /\ C26_ForwardFrontier(call) = C26_ReverseFrontier(call)
        /\ call.loads * RegisterWidth(call.kernel) = C26_BodyEnd(call) - C26_BodyStart(call)
        /\ call.head = <<call.origin.addr, C26_BodyStart(call)>>
        /\ call.tail = <<C26_BodyEnd(call), call.origin.addr + call.length>>

\* C26: in the branches of sz_bytesum_skylake, sz_bytesum_ice (64-byte registers) and
\* sz_bytesum_haswell (32-byte registers) for 1 MiB and more, the forward and the
\* reverse pointer together load every register of the body exactly once and never
\* cross, and head, body and tail cover the bytes of the text, none twice, none
\* skipped.
C26_BidirectionalCoverage == [](C26_Covered) /\ [][C26_Step]_vars

\* sz_bytesum_skylake is done with a text of 1 MiB + 129 bytes at an odd address: 63
\* head bytes, 2 tail bytes and 16385 registers, the last loaded between the two
\* pointers.
C26_Witness ==
    /\ call.pc = "done" /\ call.kernel = "skylake"
    /\ call.length = 1024 * 1024 + 129
    /\ call.head_length = 63 /\ call.tail_length = 2
    /\ call.loads = 16385
    /\ call.reverse # None /\ call.forward[2] = call.reverse[1]

\* C27: the assertions of the checksum kernels hold: when sz_bytesum_skylake or
\* sz_bytesum_ice has computed them for a text of more than 64 bytes at any
\* alignment, head_length < 64, tail_length < 64, head_length + tail_length <= length
\* and body_length is a multiple of 64; and when the loop from both ends is over, the
\* body left is 0 or one register, 32 bytes in sz_bytesum_haswell and 64 in
\* sz_bytesum_ice.
C27_AssertionsHold ==
    /\ (call.pc = "loop" /\ call.loads = 0 /\ call.kernel # "haswell") =>
           /\ call.length > 64
           /\ call.head_length < 64 /\ call.tail_length < 64
           /\ call.head_length + call.tail_length <= call.length
           /\ call.body_length >= 0
           /\ call.body_length % 64 = 0
    /\ (call.pc = "loop" /\ KernelBidirectional(call) /\ ~KernelLoopGuard(call)) =>
           call.body_length \in {0, RegisterWidth(call.kernel)}

\* sz_bytesum_ice has left its loop from both ends with one register of the body
\* not loaded yet: 199 bytes at address 63, a head of 1, a tail of 6.
C27_Witness ==
    /\ call.pc = "loop" /\ call.kernel = "ice"
    /\ call.origin.addr = 63 /\ call.length = 199
    /\ call.head_length = 1 /\ call.tail_length = 6
    /\ call.loads = 2 /\ call.body_length = 64

\* C30: in the branch of sz_bytesum_ice for more than 64 bytes and less than 1 MiB
\* no lane of sums_reversed_vec reaches the value it would saturate at: a lane holds
\* at most 4 * 255 for the tail and for each register loaded from the far end, the 16
\* lanes add up in 32 bits without wrapping, and the value returned is the sum of
\* the bytes that sz_bytesum_serial returns.
C30_NoSaturation ==
    (KernelSums(call) /\ call.pc # "enter") =>
        /\ \A j \in 1 .. 16 :
               /\ call.sums_reversed_vec[j] <= 1020 * ((call.loads \div 2) + 1)
               /\ call.sums_reversed_vec[j] < 2147483647
        /\ _mm512_reduce_add_epi32(call.sums_reversed_vec) >= 0
        /\ _mm512_reduce_add_epi32(call.sums_reversed_vec) <= 16 * 1020 * ((call.loads \div 2) + 1)
        /\ call.pc = "done" => returned = sz_bytesum_serial(call.origin, call.length)

\* sz_bytesum_ice is done with 1 MiB - 1 bytes, all 0xFF: 8191 registers were loaded
\* from the far end and every lane of sums_reversed_vec holds 8191 * 1020.
C30_Witness ==
    /\ call.pc = "done" /\ call.kernel = "ice"
    /\ call.length = 1024 * 1024 - 1 /\ call.origin.addr = 1
    /\ call.loads = 16383
    /\ call.sums_reversed_vec[16] = 8354820
    /\ returned = U64(267386625)

\* C28: sz_generate_haswell leaves in the buffer what sz_generate_serial leaves in it
\* for the same nonce and length, in each of its branches: block i is the AES round
\* of the counter nonce + i modulo 2^64 with the key of lane i mod 4.
C28_HaswellGeneratesSerial ==
    \A b \in {1, 2} :
        (call[b] # None /\ call[b].backend = "haswell") =>
            /\ buffers[b] = sz_generate_serial(C12_Prior(b), call[b].length, call[b].nonce)
            /\ \A i \in 0 .. (MaxGenLen \div 16) :
                   16 * i < call[b].length =>
                       C11_Written(buffers[b], i, call[b].length)
                           = SubSeq(_mm_aesenc_si128(
                                        _mm_set1_epi64x(U64Add(call[b].nonce, U64(i))),
                                        _mm_xor_si128(_mm_set1_epi64x(call[b].nonce),
                                                      PiLoad128(2 * (i % 4)))),
                                    1, Min(16, call[b].length - 16 * i))

\* sz_generate_haswell wrote the whole buffer from a nonce whose counters wrap around
\* 2^64: one iteration of the primary loop and a tail of 36 bytes from the counters
\* advanced by 4, and the other buffer holds what sz_generate_serial wrote for the
\* same nonce and length.
C28_Witness ==
    /\ call[1] # None /\ call[1].backend = "haswell" /\ call[1].length = MaxGenLen
    /\ call[1].nonce = <<255, 255, 255, 255, 255, 255, 255, 255>>
    /\ call[2] # None /\ call[2].backend = "serial" /\ call[2].length = MaxGenLen
    /\ call[2].nonce = call[1].nonce
    /\ buffers[1] = buffers[2]
    /\ C11_Written(buffers[1], 4, MaxGenLen) # C11_Written(buffers[1], 0, MaxGenLen)
(***************************************************************************)
(* sz_generate_ice, on the buffer as sz_generate_serial: the value is the  *)
(* buffer after the call.  The masked stores of 16, 32 and 64 bytes differ *)
(* in the width of the mask and of the register only.                      *)
(***************************************************************************)
_sz_u32_mask_until(n) == {i \in 0 .. 31 : i < n}

\* An input whose two counters would be taken in the order of the arguments of
\* _mm256_set_epi64x.
GenerateIceInput256Reversed(nonce) ==
    _mm_set1_epi64x(U64Add(nonce, U64(1))) \o _mm_set1_epi64x(nonce)

\* _mm256_set_epi64x(nonce + 1, nonce + 1, nonce, nonce): the last argument is the
\* lowest word.
GenerateIceInput256(nonce) ==
    _mm_set1_epi64x(nonce) \o _mm_set1_epi64x(U64Add(nonce, U64(1)))

\* _mm512_set_epi64(nonce + 3, nonce + 3, nonce + 2, nonce + 2, nonce + 1, nonce + 1,
\* nonce, nonce)
GenerateIceInput(nonce) ==
    _mm_set1_epi64x(nonce) \o _mm_set1_epi64x(U64Add(nonce, U64(1)))
    \o _mm_set1_epi64x(U64Add(nonce, U64(2))) \o _mm_set1_epi64x(U64Add(nonce, U64(3)))

\* key: the first 512 bits of pi, each word XORed with the nonce.
GenerateIceKey(nonce) ==
    _mm_xor_si128(_mm_set1_epi64x(nonce), PiLoad128(0))
    \o _mm_xor_si128(_mm_set1_epi64x(nonce), PiLoad128(2))
    \o _mm_xor_si128(_mm_set1_epi64x(nonce), PiLoad128(4))
    \o _mm_xor_si128(_mm_set1_epi64x(nonce), PiLoad128(6))

\* _mm256_aesenc_epi128 and _mm512_aesenc_epi128: one AES round in each 128-bit lane.
_mm256_aesenc_epi128(a, key) ==
    _mm_aesenc_si128(Lane(a, 0), Lane(key, 0)) \o _mm_aesenc_si128(Lane(a, 1), Lane(key, 1))

_mm512_aesenc_epi128(a, key) ==
    _mm_aesenc_si128(Lane(a, 0), Lane(key, 0)) \o _mm_aesenc_si128(Lane(a, 1), Lane(key, 1))
    \o _mm_aesenc_si128(Lane(a, 2), Lane(key, 2)) \o _mm_aesenc_si128(Lane(a, 3), Lane(key, 3))

\* input = _mm512_add_epi64(input, increment), increment being 4 in every word.
GenerateIceIncrement(input) ==
    _mm_add_epi64(Lane(input, 0), _mm_set1_epi64x(U64(4)))
    \o _mm_add_epi64(Lane(input, 1), _mm_set1_epi64x(U64(4)))
    \o _mm_add_epi64(Lane(input, 2), _mm_set1_epi64x(U64(4)))
    \o _mm_add_epi64(Lane(input, 3), _mm_set1_epi64x(U64(4)))

\* The primary loop of sz_generate_ice from offset i on, and the masked store of the
\* tail after it.
RECURSIVE GenerateIceLoop(_, _, _, _, _)
GenerateIceLoop(buffer, i, length, input, key) ==
    IF i + 64 <= length
    THEN GenerateIceLoop(Store(buffer, i, _mm512_aesenc_epi128(input, key)), i + 64, length,
                         GenerateIceIncrement(input), key)
    ELSE _mm512_mask_storeu_epi8(buffer, i, _sz_u64_mask_until(length - i),
                                 _mm512_aesenc_epi128(input, key))

sz_generate_ice(buffer, length, nonce) ==
    IF length <= 16
    THEN _mm512_mask_storeu_epi8(
             buffer, 0, _sz_u16_mask_until(length),
             _mm_aesenc_si128(_mm_set1_epi64x(nonce),
                              _mm_xor_si128(_mm_set1_epi64x(nonce), PiLoad128(0))))
    ELSE IF length <= 32
    THEN _mm512_mask_storeu_epi8(
             buffer, 0, _sz_u32_mask_until(length),
             _mm256_aesenc_epi128(GenerateIceInput256(nonce),
                                  SubSeq(GenerateIceKey(nonce), 1, 32)))
    ELSE IF length <= 64
    THEN _mm512_mask_storeu_epi8(
             buffer, 0, _sz_u64_mask_until(length),
             _mm512_aesenc_epi128(GenerateIceInput(nonce), GenerateIceKey(nonce)))
    ELSE GenerateIceLoop(buffer, 0, length, GenerateIceInput(nonce), GenerateIceKey(nonce))

(***************************************************************************)
(* SpecPrefix: the two callers of SpecGen, each calling sz_generate_serial *)
(* or sz_generate_ice once with a nonce and a length.                      *)
(***************************************************************************)
GenerateIce ==
    \E b \in {1, 2}, nonce \in Nonces, length \in GenLens :
        /\ call[b] = None
        /\ buffers' = [buffers EXCEPT ![b] = sz_generate_ice(@, length, nonce)]
        /\ call' = [call EXCEPT ![b] =
                        [nonce |-> nonce, length |-> length, backend |-> "ice"]]
        /\ UNCHANGED <<states, streamed, digest, equal, content, returned>>

NextPrefix == Generate \/ GenerateIce

SpecPrefix == InitGen /\ [][NextPrefix]_vars

\* C29: when the two calls had the same nonce and went to the same function, the
\* bytes written by the call with the shorter length are the first bytes written by
\* the other: the length asked for changes no byte of the common prefix.
C29_PrefixProperty ==
    \A b \in {1, 2}, c \in {1, 2} :
        (/\ call[b] # None /\ call[c] # None
         /\ call[b].nonce = call[c].nonce
         /\ call[b].backend = call[c].backend
         /\ call[b].length <= call[c].length)
            => SubSeq(buffers[b], 1, call[b].length) = SubSeq(buffers[c], 1, call[b].length)

\* sz_generate_ice wrote 17 bytes with one masked store into one buffer and 100 bytes
\* with its primary loop and tail into the other, from one nonce: the 17 bytes are
\* the first 17 of the 100, and the byte after them differs.
C29_Witness ==
    /\ call[1] # None /\ call[2] # None
    /\ call[1].backend = "ice" /\ call[2].backend = "ice"
    /\ call[1].nonce = call[2].nonce
    /\ call[1].length = 17 /\ call[2].length = MaxGenLen
    /\ SubSeq(buffers[1], 1, 17) = SubSeq(buffers[2], 1, 17)
    /\ buffers[1][18] # buffers[2][18]
====
